---- MODULE Spec2Model ----
(***************************************************************************)
(* A model of ptabler's step pipeline: the steps of ptabler.steps          *)
(* (read_csv, add_columns, join, write_csv, write_json) threading a table  *)
(* space through a workflow, and the sink plans they emit.                 *)
(*                                                                         *)
(* A lazy plan (pl.LazyFrame) is modelled by what it yields when it is     *)
(* collected: a frame (column names and rows), or an engine error.         *)
(* Python's None is the empty tuple and a present value x is <<x>>, so     *)
(* Optional fields keep the difference between None, empty and non-empty.  *)
(***************************************************************************)
EXTENDS Integers, Sequences, FiniteSets, TLC

VARIABLES
    wire,           \* the JSON document the workflow is decoded from, if any
    decoded,        \* per step of the document: the classes it was decoded to
    workflow,       \* PWorkflow.workflow: the list of steps
    lazy,           \* the `lazy` argument of PWorkflow.execute
    heap,           \* the dict objects allocated so far: object id -> table space
    initial,        \* object id of initial_table_space
    snapshot,       \* what initial_table_space held when execute was called
    cur,            \* object id of the driver's current table_space
    pc,             \* index of the next step to execute
    status,         \* "running", "collect", "done", "failed"
    sinks,          \* the driver's accumulated list of sink plans
    disk,           \* the writes of output files made so far, oldest first
    error,          \* the exception that aborted the workflow, or NoError
    history         \* per executed step: what execute was given and returned

vars == <<wire, decoded, workflow, lazy, heap, initial, snapshot, cur, pc, status, sinks, disk, error, history>>

-----------------------------------------------------------------------------
(* Optional values and Python truthiness *)

None == <<>>
Some(x) == <<x>>
IsNone(o) == Len(o) = 0
Get(o) == o[1]
\* `if self.left_on:` / `if self.columns:` : None and empty containers are falsy
Truthy(o) == Len(o) = 1 /\ Len(o[1]) > 0

Range(s) == {s[i] : i \in 1..Len(s)}
NoDup(s) == \A i, j \in 1..Len(s) : s[i] = s[j] => i = j
IndexOf(s, x) == CHOOSE i \in 1..Len(s) : s[i] = x

RECURSIVE Concat(_)
Concat(ss) == IF Len(ss) = 0 THEN <<>> ELSE Head(ss) \o Concat(Tail(ss))

-----------------------------------------------------------------------------
(* Frames: what a lazy plan yields when collected.  A cell is Null or      *)
(* <<v>> for an integer v.                                                 *)

Null == <<>>
ErrPlan == [err |-> TRUE, cols |-> <<>>, rows |-> <<>>]
Frame(cols, rows) == [err |-> FALSE, cols |-> cols, rows |-> rows]
Cell(f, row, c) == row[IndexOf(f.cols, c)]

-----------------------------------------------------------------------------
(* Values.  A cell holds Null, an integer <<v>>, a boolean or a string.    *)
(* Values of different dtypes are tuples of different widths, so that no   *)
(* two of them are ever equal.  Failed is the outcome of a kernel that     *)
(* raises in the engine.                                                   *)

Bool(b) == <<"Boolean", b>>
Str(s) == <<"String", "utf8", s>>
Failed == <<"error", "", "", "">>
IsInt(c) == Len(c) = 1
IsBool(c) == Len(c) = 2
IsStr(c) == Len(c) = 3

-----------------------------------------------------------------------------
(* Expression nodes (ptabler.expression).  A field typed                   *)
(* Union[int, Expression] holds IntLit(n) or ExprArg(e); a `value` child   *)
(* is held as ExprArg(e) as well.                                          *)

IntLit(n) == <<n>>
ExprArg(e) == <<"expr", e>>
IsExpression(val) == Len(val) = 2
ArgExpr(val) == val[2]

Col(name) == [type |-> "col", name |-> name]
ConstantValue(cell) == [type |-> "const", value |-> cell]
Const(v) == ConstantValue(<<v>>)
Plus(l, r) == [type |-> "plus", lhs |-> l, rhs |-> r]
Minus(l, r) == [type |-> "minus", lhs |-> l, rhs |-> r]
UnaryMinus(v) == [type |-> "minus", value |-> ExprArg(v)]
Gt(l, r) == [type |-> "gt", lhs |-> l, rhs |-> r]
Eq(l, r) == [type |-> "eq", lhs |-> l, rhs |-> r]
And(operands) == [type |-> "and", operands |-> operands]
Or(operands) == [type |-> "or", operands |-> operands]
Min(operands) == [type |-> "min", operands |-> operands]
Max(operands) == [type |-> "max", operands |-> operands]
Substring(value, start, length, end) ==
    [type |-> "substring", value |-> ExprArg(value), start |-> start,
     length |-> length, end |-> end]
Hash(hash_type, encoding, value) ==
    [type |-> "hash", hash_type |-> hash_type, encoding |-> encoding,
     value |-> ExprArg(value)]
Rank(order_by, partition_by, descending) ==
    [type |-> "rank", order_by |-> order_by, partition_by |-> partition_by,
     descending |-> descending]
Cumsum(value, additional_order_by, partition_by, descending) ==
    [type |-> "cumsum", value |-> ExprArg(value),
     additional_order_by |-> additional_order_by, partition_by |-> partition_by,
     descending |-> descending]

ComparisonOperator == {"gt", "ge", "eq", "lt", "le", "neq"}
BinaryArithmeticOperator == {"plus", "minus", "multiply", "truediv", "floordiv"}
\* the node classes a tag names: the binary and the unary `minus` share
\* their tag and differ in their fields
IsBinary(e) == "lhs" \in DOMAIN e
IsUnaryMinus(e) == e.type = "minus" /\ "value" \in DOMAIN e

-----------------------------------------------------------------------------
(* Engine expressions (pl.Expr): a column, a literal, or a kernel applied  *)
(* to engine expressions.                                                  *)

pl_col(name) == [op |-> "col", name |-> name, value |-> Null, args |-> <<>>]
pl_lit(value) == [op |-> "lit", name |-> "", value |-> value, args |-> <<>>]
Apply(op, args) == [op |-> op, name |-> "", value |-> Null, args |-> args]
\* a kernel with a `descending` option
ApplyDescending(op, descending, args) ==
    [op |-> op, name |-> "", value |-> <<"Boolean", descending>>, args |-> args]

\* a value of a dtype whose content the kernels here only pass on (UInt64
\* hashes, Binary)
Opaque(dtype, text) == <<dtype, text, "", "", "">>

\* the columns an engine expression reads
RECURSIVE ExprCols(_)
ExprCols(pe) ==
    IF pe.op = "col" THEN {pe.name}
    ELSE UNION {ExprCols(pe.args[k]) : k \in 1..Len(pe.args)}

\* str.slice(offset, length) on one string: `length` characters from
\* `offset` (from the end if negative), cut at the end of the string; a
\* null length means up to the end, a negative one fails the engine's cast
\* of the length to an unsigned integer
StrSlice(s, offset, length) ==
    IF IsInt(length) /\ length[1] < 0 THEN Failed
    ELSE IF s = Null \/ offset = Null THEN Null
    ELSE IF ~IsStr(s) \/ ~IsInt(offset) \/ ~(length = Null \/ IsInt(length)) THEN Failed
    ELSE LET n == Len(s[3])
             first == IF offset[1] >= 0 THEN offset[1]
                      ELSE IF n + offset[1] > 0 THEN n + offset[1] ELSE 0
             last == IF length = Null \/ first + length[1] > n THEN n
                     ELSE first + length[1]
         IN Str(SubSeq(s[3], first + 1, last))

\* all_horizontal / any_horizontal: three-valued conjunction / disjunction
AllHorizontal(a) ==
    IF \E k \in 1..Len(a) : ~(a[k] = Null \/ IsBool(a[k])) THEN Failed
    ELSE IF \E k \in 1..Len(a) : a[k] = Bool(FALSE) THEN Bool(FALSE)
    ELSE IF \E k \in 1..Len(a) : a[k] = Null THEN Null
    ELSE Bool(TRUE)
AnyHorizontal(a) ==
    IF \E k \in 1..Len(a) : ~(a[k] = Null \/ IsBool(a[k])) THEN Failed
    ELSE IF \E k \in 1..Len(a) : a[k] = Bool(TRUE) THEN Bool(TRUE)
    ELSE IF \E k \in 1..Len(a) : a[k] = Null THEN Null
    ELSE Bool(FALSE)

\* min_horizontal / max_horizontal: the least / greatest of the non-null
\* values of the row, null when there is none
MinHorizontal(a) ==
    LET vals == {a[k][1] : k \in {j \in 1..Len(a) : a[j] # Null}}
    IN IF \E k \in 1..Len(a) : ~(a[k] = Null \/ IsInt(a[k])) THEN Failed
       ELSE IF vals = {} THEN Null
       ELSE <<CHOOSE m \in vals : \A v \in vals : m <= v>>
MaxHorizontal(a) ==
    LET vals == {a[k][1] : k \in {j \in 1..Len(a) : a[j] # Null}}
    IN IF \E k \in 1..Len(a) : ~(a[k] = Null \/ IsInt(a[k])) THEN Failed
       ELSE IF vals = {} THEN Null
       ELSE <<CHOOSE m \in vals : \A v \in vals : m >= v>>

\* the comparison and arithmetic operators on two cells; a null operand
\* gives null
Compare(op, x, y) ==
    IF x = Null \/ y = Null THEN Null
    ELSE IF Len(x) # Len(y) THEN Failed
    ELSE CASE op = "eq" -> Bool(x = y)
           [] op = "ne" -> Bool(x # y)
           [] op = "gt" /\ IsInt(x) -> Bool(x[1] > y[1])
           [] op = "ge" /\ IsInt(x) -> Bool(x[1] >= y[1])
           [] op = "lt" /\ IsInt(x) -> Bool(x[1] < y[1])
           [] op = "le" /\ IsInt(x) -> Bool(x[1] <= y[1])
           [] OTHER -> Failed
Arith(op, x, y) ==
    IF x = Null \/ y = Null THEN Null
    ELSE IF ~IsInt(x) \/ ~IsInt(y) THEN Failed
    ELSE CASE op = "add" -> <<x[1] + y[1]>>
           [] op = "sub" -> <<x[1] - y[1]>>
           [] op = "mul" -> <<x[1] * y[1]>>
           [] OTHER -> Failed

\* the hash kernels and the transcoding of their output, by what they are
\* applied to
Digest(op, x) ==
    IF x = Null THEN Null
    ELSE IF IsStr(x) THEN
        IF SubSeq(op, 1, 6) = "chash." THEN Str(op \o "(" \o x[3] \o ")")
        ELSE IF SubSeq(op, 1, 7) = "nchash." THEN Opaque("UInt64", op \o "(" \o x[3] \o ")")
        ELSE IF op = "str.decode:hex" THEN Opaque("Binary", x[3])
        ELSE Failed
    ELSE IF Len(x) = 5 /\ x[1] = "UInt64" /\ op = "format:{:x}" THEN Str("hex(" \o x[2] \o ")")
    ELSE IF Len(x) = 5 /\ x[1] = "Binary" /\ op = "bin.encode:base64"
    THEN Str("base64(" \o x[2] \o ")")
    ELSE Failed

\* a kernel applied to the cells of its arguments (the kernels the
\* workflows of this model use)
Kernel(op, a) ==
    IF \E k \in 1..Len(a) : a[k] = Failed THEN Failed
    ELSE CASE op \in {"eq", "ne", "gt", "ge", "lt", "le"} -> Compare(op, a[1], a[2])
           [] op \in {"add", "sub", "mul"} -> Arith(op, a[1], a[2])
           [] op = "neg" -> Arith("sub", <<0>>, a[1])
           [] op = "all_horizontal" -> AllHorizontal(a)
           [] op = "any_horizontal" -> AnyHorizontal(a)
           [] op = "min_horizontal" -> MinHorizontal(a)
           [] op = "max_horizontal" -> MaxHorizontal(a)
           [] op = "str.slice" -> StrSlice(a[1], a[2], a[3])
           [] OTHER -> Digest(op, a[1])

\* the engine's evaluation of an expression on one row; a literal is
\* broadcast: it has its value in every row
RECURSIVE Eval(_, _, _)
Eval(pe, f, row) ==
    CASE pe.op = "col" -> Cell(f, row, pe.name)
      [] pe.op = "lit" -> pe.value
      [] OTHER -> Kernel(pe.op, [k \in 1..Len(pe.args) |-> Eval(pe.args[k], f, row)])

\* pl.struct(exprs): the value of a struct column on one row
Struct(fields) == <<"Struct", "", "", "", "", fields>>
IsStruct(c) == Len(c) = 6
\* the order of two values of one column: integers by size, structs field
\* by field, the first field that differs deciding
RECURSIVE Less(_, _)
Less(x, y) ==
    IF IsStruct(x)
    THEN LET fx == x[6]
             fy == y[6]
         IN  /\ Len(fx) > 0
             /\ \/ Less(fx[1], fy[1])
                \/ fx[1] = fy[1] /\ Less(Struct(Tail(fx)), Struct(Tail(fy)))
    ELSE x[1] < y[1]
\* x is sorted ahead of y
Ahead(x, y, descending) == IF descending THEN Less(y, x) ELSE Less(x, y)

\* Expr.rank("ordinal", descending): every row gets its own rank, 1 for the
\* row sorted first; rows with equal values are ranked in their order
RankOrdinal(col, descending) ==
    [j \in 1..Len(col) |->
        <<1 + Cardinality({i \in 1..Len(col) :
                \/ Ahead(col[i], col[j], descending)
                \/ col[i] = col[j] /\ i < j})>>]
\* Expr.rank("dense", descending): equal values share a rank, and the ranks
\* have no gaps
RankDense(col, descending) ==
    [j \in 1..Len(col) |->
        <<1 + Cardinality({col[i] : i \in {i \in 1..Len(col) :
                                             Ahead(col[i], col[j], descending)}})>>]
\* Expr.sort_by(by, descending=[d] * len(by)): the values of the column in
\* the order of their keys
SortBy(col, keys, descending) ==
    LET place == RankOrdinal(keys, descending)
    IN  [r \in 1..Len(col) |-> col[CHOOSE j \in 1..Len(col) : place[j] = <<r>>]]
\* Expr.cum_sum(): the running sum down the column
RECURSIVE SumTo(_, _)
SumTo(col, j) == IF j = 0 THEN 0 ELSE SumTo(col, j - 1) + col[j][1]
CumSum(col) == [j \in 1..Len(col) |-> <<SumTo(col, j)>>]

\* The engine's evaluation of an expression on the rows `idx` of a frame,
\* as a column.  A row-wise kernel is applied row by row; rank, sort_by and
\* cum_sum work on the whole column; inner.over(partitions) evaluates
\* `inner` on the rows of each partition apart and gives the i-th value of
\* a partition's result to the i-th row of the partition.
RECURSIVE EvalOn(_, _, _)
EvalOn(pe, f, idx) ==
    LET n == Len(idx)
        arg(k) == EvalOn(pe.args[k], f, idx)
    IN  CASE pe.op = "col" -> [j \in 1..n |-> Cell(f, f.rows[idx[j]], pe.name)]
          [] pe.op = "lit" -> [j \in 1..n |-> pe.value]
          [] pe.op = "struct" ->
                [j \in 1..n |-> Struct([k \in 1..Len(pe.args) |-> arg(k)[j]])]
          [] pe.op = "rank.ordinal" -> RankOrdinal(arg(1), pe.value[2])
          [] pe.op = "rank.dense" -> RankDense(arg(1), pe.value[2])
          [] pe.op = "sort_by" ->
                SortBy(arg(1),
                       [j \in 1..n |-> Struct([k \in 1..Len(pe.args) - 1 |-> arg(k + 1)[j]])],
                       pe.value[2])
          [] pe.op = "cum_sum" -> CumSum(arg(1))
          [] pe.op = "over" ->
                LET key(j) == [k \in 1..Len(pe.args) - 1 |-> arg(k + 1)[j]]
                    members(j) == SelectSeq([i \in 1..n |-> i], LAMBDA i : key(i) = key(j))
                    part(j) == [i \in 1..Len(members(j)) |-> idx[members(j)[i]]]
                IN  [j \in 1..n |->
                        EvalOn(pe.args[1], f, part(j))[IndexOf(members(j), j)]]
          [] OTHER -> [j \in 1..n |-> Kernel(pe.op, [k \in 1..Len(pe.args) |-> arg(k)[j]])]

\* fault variant of WithColumns: the expressions are applied one after the
\* other, each to the frame the one before has extended
RECURSIVE WithColumnsSequential(_, _)
WithColumnsSequential(f, defs) ==
    IF Len(defs) = 0 THEN f
    ELSE IF f.err \/ ~(ExprCols(Head(defs).expression) \subseteq Range(f.cols)) THEN ErrPlan
    ELSE LET def == Head(defs)
             cols == IF def.name \in Range(f.cols) THEN f.cols ELSE Append(f.cols, def.name)
             rows == [i \in 1..Len(f.rows) |->
                        [k \in 1..Len(cols) |->
                            IF cols[k] = def.name THEN Eval(def.expression, f, f.rows[i])
                            ELSE f.rows[i][k]]]
         IN WithColumnsSequential(Frame(cols, rows), Tail(defs))

\* LazyFrame.with_columns([expr.alias(name), ...]) for the lowered
\* expressions and their names: every expression reads the frame as it was
\* before the call; a name already present is replaced in place, new names
\* are appended in order; the plan fails when a kernel fails
WithColumns(f, defs) ==
    LET names == [k \in 1..Len(defs) |-> defs[k].name]
        added == SelectSeq(names, LAMBDA n : n \notin Range(f.cols))
        cols == f.cols \o added
        all == [i \in 1..Len(f.rows) |-> i]
        column(k) == EvalOn(defs[k].expression, f, all)
        value(i, c) ==
            IF c \in Range(names) THEN column(IndexOf(names, c))[i]
            ELSE Cell(f, f.rows[i], c)
        rows == [i \in 1..Len(f.rows) |->
                    [k \in 1..Len(cols) |-> value(i, cols[k])]]
    IN IF \/ f.err
          \/ ~NoDup(names)
          \/ \E k \in 1..Len(defs) : ~(ExprCols(defs[k].expression) \subseteq Range(f.cols))
       THEN ErrPlan
       ELSE IF \E i \in 1..Len(rows) : Failed \in Range(rows[i]) THEN ErrPlan
       ELSE Frame(cols, rows)

\* LazyFrame.select(columns)
SelectCols(f, columns) ==
    IF f.err \/ ~NoDup(columns) \/ ~(Range(columns) \subseteq Range(f.cols))
    THEN ErrPlan
    ELSE Frame(columns, [i \in 1..Len(f.rows) |->
                            [k \in 1..Len(columns) |-> Cell(f, f.rows[i], columns[k])]])

\* LazyFrame.select([pl.col(original).alias(new), ...]) for the pairs of a
\* columns map, in the map's order
SelectAliased(f, pairs) ==
    LET olds == [k \in 1..Len(pairs) |-> pairs[k][1]]
        news == [k \in 1..Len(pairs) |-> pairs[k][2]]
    IN IF f.err \/ ~NoDup(news) \/ ~(Range(olds) \subseteq Range(f.cols))
       THEN ErrPlan
       ELSE Frame(news, [i \in 1..Len(f.rows) |->
                            [k \in 1..Len(olds) |-> Cell(f, f.rows[i], olds[k])]])

\* LazyFrame.filter(predicate): the rows on which the predicate is true, in
\* their order, with all columns; a row on which it is null is dropped
LfFilter(f, predicate) ==
    LET verdict == [i \in 1..Len(f.rows) |-> Eval(predicate, f, f.rows[i])]
    IN IF f.err \/ ~(ExprCols(predicate) \subseteq Range(f.cols)) THEN ErrPlan
       ELSE IF \E i \in 1..Len(verdict) : ~(verdict[i] = Null \/ IsBool(verdict[i]))
       THEN ErrPlan
       ELSE Frame(f.cols, SelectSeq(f.rows, LAMBDA row : Eval(predicate, f, row) = Bool(TRUE)))

-----------------------------------------------------------------------------
(* LazyFrame.join.  Building the join plan never fails; a key list that    *)
(* names a missing column, or key lists of different lengths, make the     *)
(* plan fail when it is collected.  A right column whose name is already   *)
(* taken gets the suffix "_right".                                         *)

Nulls(n) == [k \in 1..n |-> Null]
Positions(f, names) == [k \in 1..Len(names) |-> IndexOf(f.cols, names[k])]
Pick(row, idx) == [k \in 1..Len(idx) |-> row[idx[k]]]
\* positions of the columns of f that are not in `names`
Others(f, names) == SelectSeq([k \in 1..Len(f.cols) |-> k],
                              LAMBDA k : f.cols[k] \notin Range(names))

RECURSIVE Suffixed(_, _)
Suffixed(taken, names) ==
    IF Len(names) = 0 THEN <<>>
    ELSE LET n == IF Head(names) \in Range(taken) THEN Head(names) \o "_right"
                  ELSE Head(names)
         IN <<n>> \o Suffixed(taken, Tail(names))

\* two rows match when all their key cells are equal and none is null
KeysMatch(l, r, lidx, ridx) ==
    \A k \in 1..Len(lidx) : l[lidx[k]] # Null /\ l[lidx[k]] = r[ridx[k]]

CrossRows(L, R) ==
    Concat([i \in 1..Len(L.rows) |-> [j \in 1..Len(R.rows) |-> L.rows[i] \o R.rows[j]]])

\* left_lf.join(right_lf, how="cross"): every pair of rows, left-major
CrossJoin(L, R) ==
    LET cols == L.cols \o Suffixed(L.cols, R.cols)
    IN IF L.err \/ R.err \/ ~NoDup(cols) THEN ErrPlan
       ELSE Frame(cols, CrossRows(L, R))

\* left_lf.join(right_lf, left_on=..., right_on=..., how=...) for how in
\* inner, left, right, outer
KeyedJoin(L, R, how, left_on, right_on) ==
    IF \/ L.err \/ R.err
       \/ Len(left_on) # Len(right_on)
       \/ ~(Range(left_on) \subseteq Range(L.cols))
       \/ ~(Range(right_on) \subseteq Range(R.cols))
    THEN ErrPlan
    ELSE
    LET lidx == Positions(L, left_on)
        ridx == Positions(R, right_on)
        lrest == Others(L, left_on)
        rrest == Others(R, right_on)
        all(f) == [k \in 1..Len(f.cols) |-> k]
        \* inner, left: the right key columns are dropped; right: the left
        \* key columns are dropped; outer: both sides are kept whole
        lkeep == IF how = "right" THEN lrest ELSE all(L)
        rkeep == IF how \in {"inner", "left"} THEN rrest ELSE all(R)
        lcols == Pick(L.cols, lkeep)
        cols == lcols \o Suffixed(lcols, Pick(R.cols, rkeep))
        pair(l, r) == Pick(l, lkeep) \o Pick(r, rkeep)
        matchesOfL(l) == SelectSeq(R.rows, LAMBDA r : KeysMatch(l, r, lidx, ridx))
        matchesOfR(r) == SelectSeq(L.rows, LAMBDA l : KeysMatch(l, r, lidx, ridx))
        fromLeft(l, keepUnmatched) ==
            LET m == matchesOfL(l)
            IN IF Len(m) = 0
               THEN IF keepUnmatched THEN <<Pick(l, lkeep) \o Nulls(Len(rkeep))>> ELSE <<>>
               ELSE [j \in 1..Len(m) |-> pair(l, m[j])]
        fromRight(r) ==
            LET m == matchesOfR(r)
            IN IF Len(m) = 0 THEN <<Nulls(Len(lkeep)) \o Pick(r, rkeep)>>
               ELSE [j \in 1..Len(m) |-> pair(m[j], r)]
        unmatchedRight ==
            LET u == SelectSeq(R.rows, LAMBDA r : Len(matchesOfR(r)) = 0)
            IN [j \in 1..Len(u) |-> Nulls(Len(lkeep)) \o Pick(u[j], rkeep)]
        rows ==
            CASE how = "inner" -> Concat([i \in 1..Len(L.rows) |-> fromLeft(L.rows[i], FALSE)])
              [] how = "left" -> Concat([i \in 1..Len(L.rows) |-> fromLeft(L.rows[i], TRUE)])
              [] how = "right" -> Concat([i \in 1..Len(R.rows) |-> fromRight(R.rows[i])])
              [] how = "outer" ->
                    Concat([i \in 1..Len(L.rows) |-> fromLeft(L.rows[i], TRUE)])
                        \o unmatchedRight
    IN IF ~NoDup(cols) THEN ErrPlan ELSE Frame(cols, rows)

-----------------------------------------------------------------------------
(* Table spaces.  A table space is a Python dict from table name to plan;  *)
(* the dict objects live in `heap` and are named by their index, so that   *)
(* a copy (a new object) and an update in place can be told apart.  The    *)
(* insertion order of the keys is not modelled.                            *)

EmptySpace == [n \in {} |-> ErrPlan]
Bind(space, name, plan) ==
    [n \in DOMAIN space \cup {name} |-> IF n = name THEN plan ELSE space[n]]

\* table_space.copy(): a new dict object with the same entries
DictCopy(h, ts) == Append(h, h[ts])
\* fault variant of DictSet: a name the dict holds keeps its plan
DictSetDefault(h, ts, name, plan) ==
    [h EXCEPT ![ts] = IF name \in DOMAIN @ THEN @ ELSE Bind(@, name, plan)]
\* d[name] = plan on the dict object `ts`
DictSet(h, ts, name, plan) == [h EXCEPT ![ts] = Bind(@, name, plan)]

-----------------------------------------------------------------------------
(* Exceptions *)

NoError == [type |-> "none", text |-> "", arg |-> "", available |-> {}]
\* f"Table '{table}' not found in tablespace. Available tables: {list(table_space.keys())}"
TableNotFound(text, table, space) ==
    [type |-> "ValueError", text |-> text, arg |-> table, available |-> DOMAIN space]
\* f"Missing 'left_on' for '{how}' join."
MissingKeys(text, how) ==
    [type |-> "ValueError", text |-> text, arg |-> how, available |-> {}]
\* an exception of the engine (polars.exceptions.*)
EngineError == [type |-> "EngineError", text |-> "", arg |-> "", available |-> {}]

\* what execute does: raise, or return (table space object, sink list)
Raise(e, h, d) ==
    [raised |-> TRUE, error |-> e, heap |-> h, out |-> 0, sinks |-> <<>>, disk |-> d]
Return(h, out, sk, d) ==
    [raised |-> FALSE, error |-> NoError, heap |-> h, out |-> out, sinks |-> sk, disk |-> d]

-----------------------------------------------------------------------------
(* Lowering, Expression.to_polars(): LoweringError is the exception the    *)
(* call raises (NoError when it returns), in the order the code reaches    *)
(* its checks and its children; ToPolars is the engine expression it       *)
(* returns.                                                                *)

LoweringFailure(type, text) == [type |-> type, text |-> text, arg |-> "", available |-> {}]

RECURSIVE FirstError(_)
FirstError(errs) ==
    IF Len(errs) = 0 THEN NoError
    ELSE IF Head(errs) # NoError THEN Head(errs)
    ELSE FirstError(Tail(errs))

\* _COMPARISON_OPERATORS_MAP and _BINARY_ARITHMETIC_OPERATORS_MAP
ComparisonOperatorsMap(type) ==
    CASE type = "gt" -> "gt" [] type = "ge" -> "ge" [] type = "eq" -> "eq"
      [] type = "lt" -> "lt" [] type = "le" -> "le" [] type = "neq" -> "ne"

\* fault variant of BinaryArithmeticOperatorsMap: minus is mapped to the
\* addition
BinaryArithmeticOperatorsMapMinusAdds(type) ==
    CASE type = "plus" -> "add" [] type = "minus" -> "add" [] type = "multiply" -> "mul"
      [] type = "truediv" -> "truediv" [] type = "floordiv" -> "floordiv"

BinaryArithmeticOperatorsMap(type) ==
    CASE type = "plus" -> "add" [] type = "minus" -> "sub" [] type = "multiply" -> "mul"
      [] type = "truediv" -> "truediv" [] type = "floordiv" -> "floordiv"

\* fault variant of AndToPolars: an empty `and` is lowered to false
AndToPolarsEmptyFalse(polars_operands) ==
    IF Len(polars_operands) = 0 THEN pl_lit(Bool(FALSE))
    ELSE Apply("all_horizontal", polars_operands)

\* AndExpression.to_polars, OrExpression.to_polars on the lowered operands
AndToPolars(polars_operands) ==
    IF Len(polars_operands) = 0 THEN pl_lit(Bool(TRUE))
    ELSE Apply("all_horizontal", polars_operands)
OrToPolars(polars_operands) ==
    IF Len(polars_operands) = 0 THEN pl_lit(Bool(FALSE))
    ELSE Apply("any_horizontal", polars_operands)

\* fault variant of MinToPolars: an empty `min` is lowered to zero
MinToPolarsEmptyZero(polars_operands) ==
    IF Len(polars_operands) = 0 THEN pl_lit(<<0>>)
    ELSE Apply("min_horizontal", polars_operands)

\* MinExpression.to_polars, MaxExpression.to_polars on the lowered operands
MinToPolars(polars_operands) ==
    IF Len(polars_operands) = 0 THEN pl_lit(Null)
    ELSE Apply("min_horizontal", polars_operands)
MaxToPolars(polars_operands) ==
    IF Len(polars_operands) = 0 THEN pl_lit(Null)
    ELSE Apply("max_horizontal", polars_operands)

\* SubstringExpression.to_polars, its two checks
BothLengthAndEnd(e) == ~IsNone(e.length) /\ ~IsNone(e.end)

\* fault variant of NegativeLiteralLength: a negative length is let through
NegativeLiteralLengthAllowed(e) == FALSE

NegativeLiteralLength(e) ==
    ~IsNone(e.length) /\ ~IsExpression(e.length) /\ e.length[1] < 0

CRYPTOGRAPHIC_HASH_TYPES == {"sha256", "sha512", "md5", "blake3"}
NON_CRYPTOGRAPHIC_HASH_TYPES == {"wyhash", "xxh3"}

\* fault variant of HashError: base64 of a non-cryptographic hash is let
\* through
HashErrorNone(e) == NoError

\* HashExpression.to_polars, the exception of its encoding branches; the
\* hashers of the .chash and .nchash accessors are taken to exist for the
\* six hash types
HashError(e) ==
    IF e.hash_type \in CRYPTOGRAPHIC_HASH_TYPES
    THEN IF e.encoding \in {"base64", "hex"} THEN NoError
         ELSE LoweringFailure("ValueError", "Unsupported encoding for cryptographic hash: {}")
    ELSE IF e.hash_type \in NON_CRYPTOGRAPHIC_HASH_TYPES
    THEN IF e.encoding = "hex" THEN NoError
         ELSE IF e.encoding = "base64"
         THEN LoweringFailure("NotImplementedError",
                  "Base64 encoding is not currently supported for non-cryptographic hash type '{}'.")
         ELSE LoweringFailure("ValueError", "Unsupported encoding for non-cryptographic hash: {}")
    ELSE LoweringFailure("ValueError", "Unknown hash type: {}")

\* HashExpression.to_polars, the expression of its encoding branches
HashToPolars(e, polars_value) ==
    IF e.hash_type \in CRYPTOGRAPHIC_HASH_TYPES
    THEN LET hashed_expr == Apply("chash." \o e.hash_type, <<polars_value>>)
         IN IF e.encoding = "base64"
            THEN Apply("bin.encode:base64", <<Apply("str.decode:hex", <<hashed_expr>>)>>)
            ELSE hashed_expr
    ELSE LET hashed_expr_u64 == Apply("nchash." \o e.hash_type, <<polars_value>>)
         IN Apply("format:{:x}", <<hashed_expr_u64>>)

\* fault variant of RankToPolars: the rank is dense
RankToPolarsDense(polars_order_exprs, polars_partitions, descending) ==
    LET rank_expr == ApplyDescending("rank.dense", descending,
                                     <<Apply("struct", polars_order_exprs)>>)
    IN  IF Len(polars_partitions) > 0 THEN Apply("over", <<rank_expr>> \o polars_partitions)
        ELSE rank_expr

\* RankExpression.to_polars, once order_by is known not to be empty
RankToPolars(polars_order_exprs, polars_partitions, descending) ==
    LET rank_expr == ApplyDescending("rank.ordinal", descending,
                                     <<Apply("struct", polars_order_exprs)>>)
    IN  IF Len(polars_partitions) > 0 THEN Apply("over", <<rank_expr>> \o polars_partitions)
        ELSE rank_expr

\* fault variant of RankOrderByError: an empty order_by is let through
RankOrderByErrorNone(e) == NoError

\* RankExpression.to_polars: the check of order_by
RankOrderByError(e) ==
    IF Len(e.order_by) = 0
    THEN LoweringFailure("ValueError",
                         "RankExpression requires at least one 'order_by' expression.")
    ELSE NoError

\* CumsumExpression.to_polars
CumsumToPolars(polars_value, polars_additional_order, polars_partitions, descending) ==
    LET combined_order_exprs == <<polars_value>> \o polars_additional_order
        sorted_value_expr == ApplyDescending("sort_by", descending,
                                             <<polars_value>> \o combined_order_exprs)
        cumsum_after_sort_expr == Apply("cum_sum", <<sorted_value_expr>>)
    IN  IF Len(polars_partitions) > 0
        THEN Apply("over", <<cumsum_after_sort_expr>> \o polars_partitions)
        ELSE cumsum_after_sort_expr

RECURSIVE ToPolars(_)

\* SubstringExpression.to_polars, to_polars_expr(val)
ParamToPolars(val) ==
    IF IsExpression(val) THEN ToPolars(ArgExpr(val)) ELSE pl_lit(<<val[1]>>)

\* SubstringExpression.to_polars, slice_length
SliceLength(e) ==
    IF ~IsNone(e.length) THEN ParamToPolars(e.length)
    ELSE IF ~IsNone(e.end)
    THEN Apply("sub", <<ParamToPolars(e.end), ParamToPolars(e.start)>>)
    ELSE pl_lit(Null)

ToPolars(e) ==
    CASE e.type = "col" -> pl_col(e.name)
      [] e.type = "const" -> pl_lit(e.value)
      [] e.type \in ComparisonOperator ->
            Apply(ComparisonOperatorsMap(e.type), <<ToPolars(e.lhs), ToPolars(e.rhs)>>)
      [] e.type \in BinaryArithmeticOperator /\ IsBinary(e) ->
            Apply(BinaryArithmeticOperatorsMap(e.type), <<ToPolars(e.lhs), ToPolars(e.rhs)>>)
      [] IsUnaryMinus(e) -> Apply("neg", <<ToPolars(ArgExpr(e.value))>>)
      [] e.type = "and" -> AndToPolars([k \in 1..Len(e.operands) |-> ToPolars(e.operands[k])])
      [] e.type = "or" -> OrToPolars([k \in 1..Len(e.operands) |-> ToPolars(e.operands[k])])
      [] e.type = "min" -> MinToPolars([k \in 1..Len(e.operands) |-> ToPolars(e.operands[k])])
      [] e.type = "max" -> MaxToPolars([k \in 1..Len(e.operands) |-> ToPolars(e.operands[k])])
      [] e.type = "substring" ->
            Apply("str.slice", <<ToPolars(ArgExpr(e.value)), ParamToPolars(e.start),
                                 SliceLength(e)>>)
      [] e.type = "hash" -> HashToPolars(e, ToPolars(ArgExpr(e.value)))
      [] e.type = "rank" ->
            RankToPolars([k \in 1..Len(e.order_by) |-> ToPolars(e.order_by[k])],
                         [k \in 1..Len(e.partition_by) |-> ToPolars(e.partition_by[k])],
                         e.descending)
      [] e.type = "cumsum" ->
            CumsumToPolars(ToPolars(ArgExpr(e.value)),
                           [k \in 1..Len(e.additional_order_by) |->
                               ToPolars(e.additional_order_by[k])],
                           [k \in 1..Len(e.partition_by) |-> ToPolars(e.partition_by[k])],
                           e.descending)

RECURSIVE LoweringError(_)

ParamError(val) ==
    IF IsExpression(val) THEN LoweringError(ArgExpr(val)) ELSE NoError

LoweringError(e) ==
    CASE e.type \in {"col", "const"} -> NoError
      [] IsBinary(e) -> FirstError(<<LoweringError(e.lhs), LoweringError(e.rhs)>>)
      [] IsUnaryMinus(e) -> LoweringError(ArgExpr(e.value))
      [] e.type \in {"and", "or", "min", "max"} ->
            FirstError([k \in 1..Len(e.operands) |-> LoweringError(e.operands[k])])
      [] e.type = "substring" ->
            IF BothLengthAndEnd(e)
            THEN LoweringFailure("ValueError",
                     "SubstringExpression cannot have both 'length' and 'end' defined.")
            ELSE FirstError(<<
                    LoweringError(ArgExpr(e.value)),
                    ParamError(e.start),
                    IF NegativeLiteralLength(e)
                    THEN LoweringFailure("ValueError",
                             "SubstringExpression 'length' cannot be negative.")
                    ELSE ParamError(e.length),
                    ParamError(e.end)>>)
      [] e.type = "hash" -> FirstError(<<LoweringError(ArgExpr(e.value)), HashError(e)>>)
      [] e.type = "rank" ->
            FirstError([k \in 1..Len(e.partition_by) |-> LoweringError(e.partition_by[k])]
                       \o [k \in 1..Len(e.order_by) |-> LoweringError(e.order_by[k])]
                       \o <<RankOrderByError(e)>>)
      [] e.type = "cumsum" ->
            FirstError(<<LoweringError(ArgExpr(e.value))>>
                       \o [k \in 1..Len(e.partition_by) |-> LoweringError(e.partition_by[k])]
                       \o [k \in 1..Len(e.additional_order_by) |->
                              LoweringError(e.additional_order_by[k])])

-----------------------------------------------------------------------------
(* Files *)

root_folder == "."
\* os.path.join(global_settings.root_folder, normalize_path(file))
ResolvePath(file) == <<root_folder, file>>

\* the data rows of the files, in file order, as the scan reads them with
\* no schema given
FileFrame(path) ==
    IF path = <<root_folder, "data.csv">>
    THEN Frame(<<"id", "a">>, << <<<<7>>, <<70>>>> >>)
    ELSE IF path = <<root_folder, "rows.csv">>
    THEN Frame(<<"id", "a">>,
               << <<<<1>>, Str("x")>>, <<<<2>>, Str("NA")>>, <<<<3>>, Str("y")>> >>)
    ELSE ErrPlan

\* null_values={column: sentinel}: a cell of the column that holds the
\* sentinel is read as null
ReadCell(f, null_values, row, c) ==
    LET cell == f.rows[row][c]
    IN  IF ~IsNone(null_values) /\ f.cols[c] \in DOMAIN Get(null_values)
           /\ IsStr(cell) /\ cell = Str(Get(null_values)[f.cols[c]])
        THEN Null ELSE cell

\* pl.scan_csv(path, **scan_kwargs): the frame the scan yields when
\* collected.  The keywords separator, columns and schema are None in every
\* scan made here; n_rows limits the scan to the first rows when it is given.
ScanCsv(path, scan_kwargs) ==
    LET f == FileFrame(path)
        n == IF "n_rows" \in DOMAIN scan_kwargs /\ scan_kwargs["n_rows"] < Len(f.rows)
             THEN scan_kwargs["n_rows"] ELSE Len(f.rows)
    IN  IF f.err THEN f
        ELSE Frame(f.cols,
                   [row \in 1..n |->
                       [c \in 1..Len(f.cols) |-> ReadCell(f, scan_kwargs.null_values, row, c)]])

-----------------------------------------------------------------------------
(* The steps.  Each execute takes the heap, the id `ts` of the table space *)
(* object it is given and the disk, and raises or returns.                 *)

ColumnSchema(column, type, null_value) ==
    [column |-> column, type |-> type, null_value |-> null_value]
ReadCsv(file, name, delimiter, schema, columns) ==
    [type |-> "read_csv", file |-> file, name |-> name, delimiter |-> delimiter,
     schema |-> schema, columns |-> columns]
ReadCsvStep(file, name) == ReadCsv(file, name, None, None, None)
AddColumnsStep(table, columns) ==
    [type |-> "add_columns", table |-> table, columns |-> columns]
ColumnDefinition(name, expression) == [name |-> name, expression |-> expression]
WriteCsvStep(table, file, columns) ==
    [type |-> "write_csv", table |-> table, file |-> file, columns |-> columns]
WriteJsonStep(table, file, columns) ==
    [type |-> "write_json", table |-> table, file |-> file, columns |-> columns]
JoinStep(left_table, right_table, output_table, how, left_on, right_on, left_columns, right_columns) ==
    [type |-> "join", left_table |-> left_table, right_table |-> right_table,
     output_table |-> output_table, how |-> how,
     left_on |-> left_on, right_on |-> right_on,
     left_columns |-> left_columns, right_columns |-> right_columns]

\* ReadCsv.execute, current_null_values: the sentinel of every schema entry
\* that gives one, by column
CurrentNullValues(schema) ==
    LET given == {k \in 1..Len(schema) : ~IsNone(schema[k].null_value)}
    IN  [c \in {schema[k].column : k \in given} |->
            Get(schema[CHOOSE k \in given :
                          /\ schema[k].column = c
                          /\ \A j \in given : schema[j].column = c => j <= k].null_value)]

\* ReadCsv.execute
ReadCsvExecute(step, h, ts, d) ==
    LET processed_null_values ==
            IF Truthy(step.schema) /\ DOMAIN CurrentNullValues(Get(step.schema)) # {}
            THEN Some(CurrentNullValues(Get(step.schema))) ELSE None
        scan_kwargs == [separator |-> step.delimiter, columns |-> step.columns,
                        schema |-> None, null_values |-> processed_null_values]
        lazy_frame == ScanCsv(ResolvePath(step.file), scan_kwargs)
        copied == DictCopy(h, ts)
        updated_table_space == Len(copied)
    IN Return(DictSet(copied, updated_table_space, step.name, lazy_frame),
              updated_table_space, <<>>, d)

\* Expression.to_polars() raises
ToPolarsRaises(e) == LoweringError(e) # NoError

\* AddColumns.execute, polars_expressions_to_add: the lowered expressions
\* under their aliases
Lowered(columns) ==
    [k \in 1..Len(columns) |->
        [name |-> columns[k].name, expression |-> ToPolars(columns[k].expression)]]

\* fault variant of AddColumnsExecute: the extended plan is not stored
AddColumnsExecuteNotStored(step, h, ts, d) ==
    IF step.table \notin DOMAIN h[ts]
    THEN Raise(TableNotFound("Table '{}' not found in tablespace.", step.table, h[ts]), h, d)
    ELSE LET copied == DictCopy(h, ts)
         IN Return(copied, Len(copied), <<>>, d)

\* fault variant of AddColumnsExecute: a missing table is created
AddColumnsExecuteCreates(step, h, ts, d) ==
    LET lf == IF step.table \in DOMAIN h[ts] THEN h[ts][step.table] ELSE Frame(<<>>, <<>>)
        copied == DictCopy(h, ts)
    IN Return(DictSet(copied, Len(copied), step.table, WithColumns(lf, Lowered(step.columns))),
              Len(copied), <<>>, d)

\* fault variant of AddColumnsExecute: the given dict is updated in place
AddColumnsExecuteInPlace(step, h, ts, d) ==
    IF step.table \notin DOMAIN h[ts]
    THEN Raise(TableNotFound("Table '{}' not found in tablespace.", step.table, h[ts]), h, d)
    ELSE Return(DictSet(h, ts, step.table, WithColumns(h[ts][step.table], Lowered(step.columns))),
                ts, <<>>, d)

\* AddColumns.execute
AddColumnsExecute(step, h, ts, d) ==
    IF step.table \notin DOMAIN h[ts]
    THEN Raise(TableNotFound("Table '{}' not found in tablespace.", step.table, h[ts]), h, d)
    ELSE IF \E k \in 1..Len(step.columns) : ToPolarsRaises(step.columns[k].expression)
    THEN Raise(FirstError([k \in 1..Len(step.columns) |->
                              LoweringError(step.columns[k].expression)]), h, d)
    ELSE LET lf == IF Len(step.columns) > 0
                   THEN WithColumns(h[ts][step.table], Lowered(step.columns))
                   ELSE h[ts][step.table]
             copied == DictCopy(h, ts)
             updated_table_space == Len(copied)
         IN Return(DictSet(copied, updated_table_space, step.table, lf),
                   updated_table_space, <<>>, d)

\* fault variant of ProjectSide: an empty map projects to no columns
ProjectSideWhenSupplied(lf, columns) ==
    IF ~IsNone(columns) THEN SelectAliased(lf, Get(columns)) ELSE lf

\* fault variant of ProjectSide: the listed columns are kept under their
\* original names
ProjectSideNoRename(lf, columns) ==
    IF Truthy(columns)
    THEN SelectAliased(lf, [k \in 1..Len(Get(columns)) |->
                                <<Get(columns)[k][1], Get(columns)[k][1]>>])
    ELSE lf

\* Join.execute, `if self.left_columns: left_lf = left_lf.select([...])`
\* (and the same for the right side)
ProjectSide(lf, columns) ==
    IF Truthy(columns) THEN SelectAliased(lf, Get(columns)) ELSE lf

\* fault variant of JoinKeysError: right_on is looked at first
JoinKeysErrorRightFirst(step) ==
    IF step.how = "cross" THEN NoError
    ELSE IF ~Truthy(step.right_on)
    THEN MissingKeys("Missing 'right_on' for '{}' join.", step.how)
    ELSE IF ~Truthy(step.left_on)
    THEN MissingKeys("Missing 'left_on' for '{}' join.", step.how)
    ELSE NoError

\* fault variant of JoinKeysError: key lists of different lengths are rejected
JoinKeysErrorArity(step) ==
    IF step.how = "cross" THEN NoError
    ELSE IF ~Truthy(step.left_on)
    THEN MissingKeys("Missing 'left_on' for '{}' join.", step.how)
    ELSE IF ~Truthy(step.right_on)
    THEN MissingKeys("Missing 'right_on' for '{}' join.", step.how)
    ELSE IF Len(Get(step.left_on)) # Len(Get(step.right_on))
    THEN MissingKeys("'left_on' and 'right_on' differ in length for '{}' join.", step.how)
    ELSE NoError

\* Join.execute, the checks of the key lists; NoError when none raises
JoinKeysError(step) ==
    IF step.how = "cross" THEN NoError
    ELSE IF ~Truthy(step.left_on)
    THEN MissingKeys("Missing 'left_on' for '{}' join.", step.how)
    ELSE IF ~Truthy(step.right_on)
    THEN MissingKeys("Missing 'right_on' for '{}' join.", step.how)
    ELSE NoError

\* fault variant of JoinedLf: a cross join keeps only the pairs that agree
\* on the supplied keys
JoinedLfCrossUsesKeys(step, left_lf, right_lf) ==
    IF step.how = "cross"
    THEN IF Truthy(step.left_on) /\ Truthy(step.right_on)
         THEN KeyedJoin(left_lf, right_lf, "inner", Get(step.left_on), Get(step.right_on))
         ELSE CrossJoin(left_lf, right_lf)
    ELSE KeyedJoin(left_lf, right_lf, step.how, Get(step.left_on), Get(step.right_on))

\* Join.execute, the join plan built once the key lists have passed
JoinedLf(step, left_lf, right_lf) ==
    IF step.how = "cross"
    THEN CrossJoin(left_lf, right_lf)
    ELSE KeyedJoin(left_lf, right_lf, step.how, Get(step.left_on), Get(step.right_on))

\* fault variant of JoinExecute: the output entry is bound, on the given
\* dict, before the keys are checked
JoinExecuteBindsFirst(step, h, ts, d) ==
    IF step.left_table \notin DOMAIN h[ts]
    THEN Raise(TableNotFound("Left table '{}' not found in tablespace.",
                             step.left_table, h[ts]), h, d)
    ELSE IF step.right_table \notin DOMAIN h[ts]
    THEN Raise(TableNotFound("Right table '{}' not found in tablespace.",
                             step.right_table, h[ts]), h, d)
    ELSE LET left_lf == ProjectSide(h[ts][step.left_table], step.left_columns)
             right_lf == ProjectSide(h[ts][step.right_table], step.right_columns)
             bound == DictSet(h, ts, step.output_table, left_lf)
         IN IF JoinKeysError(step) # NoError
            THEN Raise(JoinKeysError(step), bound, d)
            ELSE Return(DictSet(bound, ts, step.output_table,
                                JoinedLf(step, left_lf, right_lf)), ts, <<>>, d)

\* Join.execute
JoinExecute(step, h, ts, d) ==
    IF step.left_table \notin DOMAIN h[ts]
    THEN Raise(TableNotFound("Left table '{}' not found in tablespace.",
                             step.left_table, h[ts]), h, d)
    ELSE IF step.right_table \notin DOMAIN h[ts]
    THEN Raise(TableNotFound("Right table '{}' not found in tablespace.",
                             step.right_table, h[ts]), h, d)
    ELSE LET left_lf == ProjectSide(h[ts][step.left_table], step.left_columns)
             right_lf == ProjectSide(h[ts][step.right_table], step.right_columns)
             copied == DictCopy(h, ts)
             updated_table_space == Len(copied)
         IN IF JoinKeysError(step) # NoError
            THEN Raise(JoinKeysError(step), h, d)
            ELSE Return(DictSet(copied, updated_table_space, step.output_table,
                                JoinedLf(step, left_lf, right_lf)),
                        updated_table_space, <<>>, d)

FilterStep(input_table, output_table, condition) ==
    [type |-> "filter", input_table |-> input_table, output_table |-> output_table,
     condition |-> condition]

\* fault variant of FilterExecute: the rows on which the condition is not
\* true are kept
FilterExecuteNegated(step, h, ts, d) ==
    IF step.input_table \notin DOMAIN h[ts]
    THEN Raise(TableNotFound("Table '{}' not found in tablespace.", step.input_table, h[ts]), h, d)
    ELSE IF ToPolarsRaises(step.condition) THEN Raise(LoweringError(step.condition), h, d)
    ELSE LET lf == h[ts][step.input_table]
             kept == LfFilter(lf, Apply("ne", <<ToPolars(step.condition), pl_lit(Bool(TRUE))>>))
             copied == DictCopy(h, ts)
         IN Return(DictSet(copied, Len(copied), step.output_table, kept), Len(copied), <<>>, d)

\* Filter.execute: the condition is lowered and applied as the row
\* predicate of the input table; the result is bound to output_table
FilterExecute(step, h, ts, d) ==
    IF step.input_table \notin DOMAIN h[ts]
    THEN Raise(TableNotFound("Table '{}' not found in tablespace.", step.input_table, h[ts]), h, d)
    ELSE IF ToPolarsRaises(step.condition) THEN Raise(LoweringError(step.condition), h, d)
    ELSE LET lf == h[ts][step.input_table]
             filtered_lf == LfFilter(lf, ToPolars(step.condition))
             copied == DictCopy(h, ts)
             updated_table_space == Len(copied)
         IN Return(DictSet(copied, updated_table_space, step.output_table, filtered_lf),
                   updated_table_space, <<>>, d)

-----------------------------------------------------------------------------
(* Writing.  A sink plan names the file and the frame it writes when it is *)
(* collected.  LazyFrame.sink_csv(lazy=True) returns such a plan.          *)
(* LazyFrame.sink_ndjson(path) is called without lazy=True: it runs the    *)
(* plan and writes the file at once, and returns None.                     *)

SinkPlan(format, path, frame) ==
    [kind |-> "sink", format |-> format, path |-> path, frame |-> frame]
NonePlan == [kind |-> "None", format |-> "", path |-> <<>>, frame |-> ErrPlan]
\* one write of a file: the disk is the list of the writes made so far
Written(path, format, frame) == [path |-> path, format |-> format, frame |-> frame]

\* WriteCsv._do_sink and WriteJson._do_sink
DoSink(step, selected_lf, output_path, d) ==
    IF step.type = "write_csv"
    THEN [raised |-> FALSE, plan |-> SinkPlan("csv", output_path, selected_lf), disk |-> d]
    ELSE IF selected_lf.err
    THEN [raised |-> TRUE, plan |-> NonePlan, disk |-> d]
    ELSE [raised |-> FALSE, plan |-> NonePlan,
          disk |-> Append(d, Written(output_path, "ndjson", selected_lf))]

\* BaseWriteLogic.execute
WriteExecute(step, h, ts, d) ==
    IF step.table \notin DOMAIN h[ts]
    THEN Raise(TableNotFound("Table '{}' not found in tablespace.", step.table, h[ts]), h, d)
    ELSE LET lf_to_write == h[ts][step.table]
             selected_lf == IF Truthy(step.columns)
                            THEN SelectCols(lf_to_write, Get(step.columns))
                            ELSE lf_to_write
             sunk == DoSink(step, selected_lf, ResolvePath(step.file), d)
         IN IF sunk.raised THEN Raise(EngineError, h, sunk.disk)
            ELSE Return(h, ts, <<sunk.plan>>, sunk.disk)

-----------------------------------------------------------------------------
(* The workflow driver, PWorkflow.execute(global_settings, lazy,           *)
(* initial_table_space): fold the steps in order over the table space,     *)
(* append their sinks, and unless `lazy` collect the sinks at the end.     *)
(* The given initial_table_space object is handed to the first step as it  *)
(* is.                                                                     *)

MaxSteps == 3

LeftFrame == Frame(<<"id", "a">>, << <<<<1>>, <<10>>>>, <<<<2>>, <<20>>>> >>)
RightFrame == Frame(<<"id", "b">>, << <<<<1>>, <<5>>>>, <<<<3>>, <<7>>>> >>)
TwoTables == Bind(Bind(EmptySpace, "left", LeftFrame), "right", RightFrame)
InitialSpaces == {EmptySpace, TwoTables}

StepPool == {
    ReadCsvStep("data.csv", "left"),
    ReadCsvStep("data.csv", "extra"),
    AddColumnsStep("left", <<ColumnDefinition("c", Plus(Col("a"), Const(1)))>>),
    AddColumnsStep("left", <<ColumnDefinition("d", Plus(Col("c"), Col("a")))>>),
    AddColumnsStep("ghost", <<ColumnDefinition("c", Col("a"))>>),
    AddColumnsStep("left", <<ColumnDefinition("e", Plus(Col("a"), Const(1))),
                             ColumnDefinition("s", Substring(Col("a"), IntLit(0),
                                                             IntLit(1), IntLit(2)))>>),
    JoinStep("left", "right", "out", "inner", Some(<<"id">>), Some(<<"id">>), None, None),
    JoinStep("left", "right", "left", "left", Some(<<"id">>), Some(<<"id">>),
             Some(<< <<"id", "id">>, <<"a", "a">> >>), None),
    JoinStep("ghost", "right", "out", "inner", Some(<<"id">>), Some(<<"id">>), None, None),
    JoinStep("left", "ghost", "out", "cross", None, None, None, None),
    JoinStep("left", "right", "out", "outer", None, Some(<<"id">>), None, None),
    WriteCsvStep("left", "o.csv", None),
    WriteCsvStep("ghost", "g.csv", None),
    WriteCsvStep("left", "c.csv", Some(<<"c">>)),
    WriteJsonStep("left", "o.ndjson", None),
    WriteJsonStep("left", "c.ndjson", Some(<<"c">>))
}

Workflows == UNION {[1..n -> StepPool] : n \in 0..MaxSteps}

Init ==
    /\ wire = None
    /\ decoded = <<>>
    /\ workflow \in Workflows
    /\ lazy \in BOOLEAN
    /\ snapshot \in InitialSpaces
    /\ heap = <<snapshot>>
    /\ initial = 1
    /\ cur = 1
    /\ pc = 1
    /\ status = "running"
    /\ sinks = <<>>
    /\ disk = <<>>
    /\ error = NoError
    /\ history = <<>>

\* the driver's loop body for the value r of step.execute(table_space, ...):
\* an exception leaves the loop; otherwise the returned space becomes the
\* current one and the returned sinks are appended
Fold(r) ==
    /\ heap' = r.heap
    /\ disk' = r.disk
    /\ history' = Append(history,
            [step |-> pc, given |-> cur, before |-> heap[cur], raised |-> r.raised,
             returned |-> r.out,
             after |-> IF r.raised THEN EmptySpace ELSE r.heap[r.out],
             sinks |-> r.sinks, writes |-> Len(r.disk) - Len(disk)])
    /\ IF r.raised
       THEN /\ status' = "failed"
            /\ error' = r.error
            /\ UNCHANGED <<cur, pc, sinks>>
       ELSE /\ cur' = r.out
            /\ sinks' = sinks \o r.sinks
            /\ pc' = pc + 1
            /\ UNCHANGED <<status, error>>
    /\ UNCHANGED <<wire, decoded, workflow, lazy, initial, snapshot>>

AtStep(types) ==
    status = "running" /\ pc <= Len(workflow) /\ workflow[pc].type \in types

ExecReadCsv ==
    /\ AtStep({"read_csv"})
    /\ Fold(ReadCsvExecute(workflow[pc], heap, cur, disk))

ExecAddColumns ==
    /\ AtStep({"add_columns"})
    /\ Fold(AddColumnsExecute(workflow[pc], heap, cur, disk))

ExecJoin ==
    /\ AtStep({"join"})
    /\ Fold(JoinExecute(workflow[pc], heap, cur, disk))

ExecWrite ==
    /\ AtStep({"write_csv", "write_json"})
    /\ Fold(WriteExecute(workflow[pc], heap, cur, disk))

\* lazy=True: the table space and the sink plans are returned uncollected
ReturnLazy ==
    /\ status = "running" /\ pc > Len(workflow) /\ lazy
    /\ status' = "done"
    /\ UNCHANGED <<wire, decoded, workflow, lazy, heap, initial, snapshot, cur, pc, sinks, disk, error, history>>

Collectable(plan) == plan.kind = "sink" /\ ~plan.frame.err

RECURSIVE WriteAll(_, _)
WriteAll(d, plans) ==
    IF Len(plans) = 0 THEN d
    ELSE WriteAll(Append(d, Written(Head(plans).path, Head(plans).format, Head(plans).frame)),
                  Tail(plans))

\* lazy=False, every accumulated sink can be collected: each writes its file
CollectSinks ==
    /\ status = "running" /\ pc > Len(workflow) /\ ~lazy
    /\ \A k \in 1..Len(sinks) : Collectable(sinks[k])
    /\ disk' = WriteAll(disk, sinks)
    /\ status' = "done"
    /\ UNCHANGED <<wire, decoded, workflow, lazy, heap, initial, snapshot, cur, pc, sinks, error, history>>

\* lazy=False, some accumulated entry is no plan or its plan fails in the
\* engine: the batch raises; which of the other sinks wrote their file
\* before that is up to the engine
CollectFails ==
    /\ status = "running" /\ pc > Len(workflow) /\ ~lazy
    /\ \E k \in 1..Len(sinks) : ~Collectable(sinks[k])
    /\ \E done \in SUBSET {k \in 1..Len(sinks) : Collectable(sinks[k])} :
          disk' = WriteAll(disk, SelectSeq(sinks, LAMBDA p : \E k \in done : sinks[k] = p))
    /\ status' = "failed"
    /\ error' = EngineError
    /\ UNCHANGED <<wire, decoded, workflow, lazy, heap, initial, snapshot, cur, pc, sinks, history>>

Next ==
    \/ ExecReadCsv
    \/ ExecAddColumns
    \/ ExecJoin
    \/ ExecWrite
    \/ ReturnLazy
    \/ CollectSinks
    \/ CollectFails

Spec == Init /\ [][Next]_vars

-----------------------------------------------------------------------------
(* Properties of the step pipeline *)

Executed == 1..Len(history)
IsWrite(step) == step.type \in {"write_csv", "write_json"}
\* the steps that bind `name` to a plan built from other inputs
Rebinds(step, name) ==
    \/ step.type = "read_csv" /\ step.name = name
    \/ step.type = "join" /\ step.output_table = name
\* the table names a step reads, in the order it looks them up
RefTables(step) ==
    CASE step.type = "read_csv" -> <<>>
      [] step.type = "add_columns" -> <<step.table>>
      [] step.type = "filter" -> <<step.input_table>>
      [] IsWrite(step) -> <<step.table>>
      [] step.type = "join" -> <<step.left_table, step.right_table>>

\* steps run in list order, each on the space the one before returned
InOrder ==
    /\ \A k \in Executed : history[k].step = k
    /\ Len(history) > 0 => history[1].given = initial /\ history[1].before = snapshot
    /\ \A k \in Executed : k < Len(history) =>
          /\ ~history[k].raised
          /\ history[k + 1].given = history[k].returned
          /\ history[k + 1].before = history[k].after
\* a column that is new at step i was seen by no earlier step on the table
NotSeenEarlier ==
    \A i \in Executed : workflow[i].type = "add_columns" /\ ~history[i].raised =>
        \A d \in Range(workflow[i].columns) :
            LET T == workflow[i].table
            IN d.name \notin Range(history[i].before[T].cols) =>
                \A k \in 1..(i - 1) :
                    /\ T \in DOMAIN history[k].before
                    /\ ~history[i].before[T].err
                    /\ \A m \in k..(i - 1) : ~Rebinds(workflow[m], T)
                    => d.name \notin Range(history[k].before[T].cols)
\* step j, an add_columns on the table of the add_columns step i < j, finds
\* the columns of step i in the plan it is given (unless that plan already
\* fails in the engine)
SeenLater(i, j) ==
    LET T == workflow[i].table
    IN \A d \in Range(workflow[i].columns) :
          ~history[j].before[T].err => d.name \in Range(history[j].before[T].cols)
AddAfterAdd(i, j) ==
    /\ i \in Executed /\ j \in Executed /\ i < j
    /\ workflow[i].type = "add_columns" /\ workflow[j].type = "add_columns"
    /\ workflow[i].table = workflow[j].table
    /\ workflow[i].table \in DOMAIN history[j].before
NotReboundBetween(i, j) ==
    \A m \in (i + 1)..(j - 1) : ~Rebinds(workflow[m], workflow[i].table)

\* C1 as stated: steps run in order on the space returned by the step
\* before; a column added to T by an add_columns step is in the plan of T
\* given to every later add_columns step on T, and is seen by no earlier step
C1_AnyLaterPosition ==
    /\ InOrder
    /\ NotSeenEarlier
    /\ \A i, j \in Executed : AddAfterAdd(i, j) => SeenLater(i, j)

\* C1 amended: as C1, for the later add_columns steps on T that no read_csv
\* named T and no join with output_table T comes before (after step i)
C1_LaterUnlessRebound ==
    /\ InOrder
    /\ NotSeenEarlier
    /\ \A i, j \in Executed :
          AddAfterAdd(i, j) /\ NotReboundBetween(i, j) => SeenLater(i, j)

\* a second add_columns has read the column the first one added
C1_Witness ==
    /\ Len(history) >= 2 /\ ~history[2].raised
    /\ AddAfterAdd(1, 2)
    /\ "c" \notin Range(history[1].before["left"].cols)
    /\ workflow[2].columns[1].expression = Plus(Col("c"), Col("a"))
    /\ ~history[2].after["left"].err
    /\ Cell(history[2].after["left"], history[2].after["left"].rows[1], "d") = <<21>>

\* the executed write steps that returned, in order
WriteStepsDone ==
    SelectSeq([k \in 1..Len(history) |-> k],
              LAMBDA k : IsWrite(workflow[k]) /\ ~history[k].raised)
\* the frame a write step writes: the table, or its `columns` if any
Selected(step, space) ==
    IF Truthy(step.columns) THEN SelectCols(space[step.table], Get(step.columns))
    ELSE space[step.table]

\* C2: the accumulated sink list is the concatenation of the steps' sink
\* lists in step order; it holds one plan per executed write step, the k-th
\* being the plan that writes the k-th write step's file; the other steps
\* contribute nothing
C2_OnePlanPerWriteStep ==
    /\ sinks = Concat([k \in 1..Len(history) |-> history[k].sinks])
    /\ Len(sinks) = Len(WriteStepsDone)
    /\ \A k \in 1..Len(sinks) :
          LET step == workflow[WriteStepsDone[k]]
          IN /\ sinks[k].kind = "sink"
             /\ sinks[k].path = ResolvePath(step.file)
             /\ sinks[k].frame = Selected(step, history[WriteStepsDone[k]].before)
    /\ \A k \in Executed : ~IsWrite(workflow[k]) => history[k].sinks = <<>>

\* C3: a write step whose table is in the space returns the space it was
\* given, with the same entries, and exactly one sink plan
C3_WriteKeepsSpaceOnePlan ==
    \A k \in Executed :
        IsWrite(workflow[k]) /\ workflow[k].table \in DOMAIN history[k].before =>
            /\ ~history[k].raised
            /\ history[k].after = history[k].before
            /\ Len(history[k].sinks) = 1
            /\ history[k].sinks[1].kind = "sink"

\* C4: no step's execute writes a file; files are written only once every
\* step has been executed, when the sink plans are collected
C4_NoWriteBeforeCollect ==
    /\ \A k \in Executed : history[k].writes = 0
    /\ pc <= Len(workflow) => disk = <<>>

\* the name a step binds in the space it returns
OutputName(step) ==
    CASE step.type = "read_csv" -> step.name
      [] step.type = "add_columns" -> step.table
      [] step.type = "filter" -> step.output_table
      [] step.type = "join" -> step.output_table

\* C5: no step changes a table space object that exists when it is called
\* (the one it is given among them), so initial_table_space keeps the
\* entries it had when the workflow was started
C5_InputSpaceKept ==
    [][/\ \A ts \in 1..Len(heap) : heap'[ts] = heap[ts]
       /\ heap'[initial] = snapshot]_vars

\* a step has returned a space in which a name of its input is bound to a
\* new plan, and the space it was given still holds the old one
C5_Witness ==
    \E k \in Executed :
        /\ ~history[k].raised /\ ~IsWrite(workflow[k])
        /\ OutputName(workflow[k]) \in DOMAIN history[k].before
        /\ history[k].after[OutputName(workflow[k])]
              # history[k].before[OutputName(workflow[k])]
        /\ heap[history[k].given] = history[k].before
        /\ heap[history[k].returned] = history[k].after

\* the tables a step reads that the space does not hold
Missing(step, space) == SelectSeq(RefTables(step), LAMBDA t : t \notin DOMAIN space)

\* C6: a step that reads a table the space does not hold raises a
\* ValueError naming that table and the tables of the space; it returns
\* nothing and the space it was given does not get the missing entry
C6_MissingTableRaises ==
    \A k \in Executed :
        LET missing == Missing(workflow[k], history[k].before)
        IN Len(missing) > 0 =>
            /\ history[k].raised
            /\ k = Len(history) /\ status = "failed"
            /\ error.type = "ValueError"
            /\ error.arg = missing[1]
            /\ error.available = DOMAIN history[k].before
            /\ missing[1] \notin DOMAIN heap[history[k].given]
            /\ Len(heap) = history[k].given

\* a join whose right table is missing has failed, after two steps that
\* each added a table space
C6_Witness ==
    /\ Len(history) = 3 /\ history[3].raised
    /\ workflow[3].type = "join"
    /\ error.text = "Right table '{}' not found in tablespace."
    /\ error.arg = "ghost"
    /\ error.available = {"left", "right", "extra"}

\* a step's execute has raised in this step of the driver
ExecuteRaises == Len(history') = Len(history) + 1 /\ history'[Len(history')].raised

\* C29: when the execute of an add_columns or join step raises, the table
\* space it was given holds the entries it held, no table space object has
\* changed or been made current, no sink has been emitted, and the workflow
\* is aborted: no step is executed after it
C29_FailedExecuteLeavesSpace ==
    [][/\ status # "failed"
       /\ ExecuteRaises /\ workflow[pc].type \in {"add_columns", "join"} =>
            /\ status' = "failed" /\ error' # NoError
            /\ pc' = pc /\ cur' = cur
            /\ \A ts \in 1..Len(heap) : heap'[ts] = heap[ts]
            /\ heap'[cur] = history'[Len(history')].before
            /\ \A ts \in 1..Len(heap') : ts <= Len(heap) \/ ts # cur'
            /\ sinks' = sinks /\ history'[Len(history')].sinks = <<>>
            /\ disk' = disk]_vars

\* the second definition of an add_columns step has failed to lower after a
\* step that returned, and the current space is the one that step returned
C29_Witness ==
    /\ status = "failed" /\ Len(history) = 2
    /\ ~history[1].raised /\ history[2].raised
    /\ workflow[2].type = "add_columns" /\ Len(workflow[2].columns) = 2
    /\ error.text = "SubstringExpression cannot have both 'length' and 'end' defined."
    /\ cur = history[1].returned /\ heap[cur] = history[1].after
    /\ "e" \notin Range(heap[cur]["left"].cols)

\* the plan a step binds to its output name, from the space it is given
OutputPlan(step, space) ==
    CASE step.type = "read_csv" ->
            ScanCsv(ResolvePath(step.file),
                    [separator |-> None, columns |-> None, schema |-> None,
                     null_values |-> None])
      [] step.type = "add_columns" ->
            IF Len(step.columns) > 0
            THEN WithColumns(space[step.table], Lowered(step.columns))
            ELSE space[step.table]
      [] step.type = "join" ->
            JoinedLf(step, ProjectSide(space[step.left_table], step.left_columns),
                     ProjectSide(space[step.right_table], step.right_columns))

\* C30: the space a step returns holds every key of the space it was given,
\* every key but the step's output name with the plan it had, and the
\* output name with the step's new plan, also when the name was bound
\* before; a write step returns the entries it was given
C30_KeysOnlyGrow ==
    \A k \in Executed :
        LET step == workflow[k]
            before == history[k].before
            after == history[k].after
        IN ~history[k].raised =>
            /\ DOMAIN before \subseteq DOMAIN after
            /\ IF IsWrite(step) THEN after = before
               ELSE /\ DOMAIN after = DOMAIN before \cup {OutputName(step)}
                    /\ \A n \in DOMAIN before \ {OutputName(step)} : after[n] = before[n]
                    /\ after[OutputName(step)] = OutputPlan(step, before)
            /\ k < Len(history) => history[k + 1].before = after

\* a join whose output_table is its left_table has rebound the name, and a
\* read_csv after it has added a key
C30_Witness ==
    /\ Len(history) = 2 /\ ~history[1].raised /\ ~history[2].raised
    /\ workflow[1].type = "join" /\ workflow[1].output_table = workflow[1].left_table
    /\ history[1].after["left"] # history[1].before["left"]
    /\ history[1].after["right"] = history[1].before["right"]
    /\ workflow[2] = ReadCsvStep("data.csv", "extra")
    /\ DOMAIN heap[cur] = {"left", "right", "extra"}

\* the driver's run ends: every step it takes is taken in the end
SpecFair == Init /\ [][Next]_vars /\ WF_vars(Next)

\* every step has been executed, none has raised, and the frame of every
\* write step can be collected
AllStepsReturned ==
    /\ status = "running" /\ pc > Len(workflow)
    /\ \A k \in Executed :
          IsWrite(workflow[k]) => ~Selected(workflow[k], history[k].before).err
\* every write step's file has been written, each once
EveryFileWritten ==
    /\ Len(disk) = Len(WriteStepsDone)
    /\ \A k \in 1..Len(WriteStepsDone) :
          LET step == workflow[WriteStepsDone[k]]
          IN \E j \in 1..Len(disk) :
                /\ disk[j].path = ResolvePath(step.file)
                /\ disk[j].frame = Selected(step, history[WriteStepsDone[k]].before)

\* C26: in the non-lazy mode, once every step has been executed and none
\* has failed, the run ends with every write step's sink collected, each
\* once, so that every write step's file exists; and no sink is collected
\* while steps are still to be executed
C26_SinksCollectedAtEnd ==
    /\ [](~lazy /\ status = "running" /\ pc <= Len(workflow) => disk = <<>>)
    /\ [](~lazy /\ AllStepsReturned => <>(status = "done" /\ EveryFileWritten))

-----------------------------------------------------------------------------
(* One join step on the two tables, over all shapes of its key lists and   *)
(* column maps, run the way the join tests run it (lazy=True).             *)

MaxKeys == 2

Hows == {"inner", "left", "right", "outer", "cross"}
KeyLists(names) ==
    {None} \cup {Some(s) : s \in {t \in UNION {[1..n -> names] : n \in 0..MaxKeys} : NoDup(t)}}
LeftKeyNames == {"id", "a", "key"}
RightKeyNames == {"id", "b", "key_right"}
LeftMaps == {None, Some(<<>>),
             Some(<< <<"id", "id">>, <<"a", "a">> >>),
             Some(<< <<"id", "key">> >>)}
RightMaps == {None, Some(<<>>),
              Some(<< <<"id", "key_right">>, <<"b", "b">> >>),
              Some(<< <<"b", "b">> >>)}
JoinSteps ==
    {JoinStep("left", "right", "out", how, lo, ro, lc, rc) :
        how \in Hows, lo \in KeyLists(LeftKeyNames), ro \in KeyLists(RightKeyNames),
        lc \in LeftMaps, rc \in RightMaps}

InitJoin ==
    /\ wire = None
    /\ decoded = <<>>
    /\ workflow \in {<<j>> : j \in JoinSteps}
    /\ lazy = TRUE
    /\ snapshot = TwoTables
    /\ heap = <<snapshot>>
    /\ initial = 1
    /\ cur = 1
    /\ pc = 1
    /\ status = "running"
    /\ sinks = <<>>
    /\ disk = <<>>
    /\ error = NoError
    /\ history = <<>>

NextJoin ==
    \/ ExecJoin
    \/ ReturnLazy

SpecJoin == InitJoin /\ [][NextJoin]_vars

\* the executed join steps whose two input tables were in the space
JoinsRun ==
    {k \in Executed : workflow[k].type = "join"
                      /\ Len(Missing(workflow[k], history[k].before)) = 0}
\* execute raised error e, returned nothing and left the space as it was
RaisedOnly(k, e) ==
    /\ history[k].raised
    /\ status = "failed" /\ error = e
    /\ Len(heap) = history[k].given
    /\ heap[history[k].given] = history[k].before

\* C7: a join other than cross whose left_on is absent or empty raises
\* ValueError "Missing 'left_on' for '<how>' join."; otherwise, if its
\* right_on is absent or empty, "Missing 'right_on' for '<how>' join.";
\* either way no output_table entry is made
C7_MissingKeysRaise ==
    \A k \in JoinsRun :
        LET step == workflow[k]
        IN step.how # "cross" =>
            /\ ~Truthy(step.left_on) =>
                  RaisedOnly(k, [type |-> "ValueError",
                                 text |-> "Missing 'left_on' for '{}' join.",
                                 arg |-> step.how, available |-> {}])
            /\ Truthy(step.left_on) /\ ~Truthy(step.right_on) =>
                  RaisedOnly(k, [type |-> "ValueError",
                                 text |-> "Missing 'right_on' for '{}' join.",
                                 arg |-> step.how, available |-> {}])

\* an outer join with an empty left_on and no right_on has failed on left_on
C7_Witness ==
    /\ 1 \in JoinsRun /\ history[1].raised
    /\ workflow[1].how = "outer"
    /\ workflow[1].left_on = Some(<<>>) /\ workflow[1].right_on = None
    /\ error.text = "Missing 'left_on' for '{}' join." /\ error.arg = "outer"

\* the key lists are both non-empty and differ in length
ArityMismatch(step) ==
    /\ step.how # "cross"
    /\ Truthy(step.left_on) /\ Truthy(step.right_on)
    /\ Len(Get(step.left_on)) # Len(Get(step.right_on))

\* C8 as stated: a join other than cross whose non-empty key lists differ in
\* length is rejected by execute and binds no output_table
C8_ArityRejectedAtExecute ==
    \A k \in JoinsRun : ArityMismatch(workflow[k]) => history[k].raised

\* C8 amended: such a join is not rejected by execute: it returns a space
\* in which output_table is bound to the join plan, and that plan fails in
\* the engine when it is collected
C8_ArityLeftToEngine ==
    \A k \in JoinsRun : ArityMismatch(workflow[k]) =>
        /\ ~history[k].raised
        /\ workflow[k].output_table \in DOMAIN history[k].after
        /\ history[k].after[workflow[k].output_table].err

\* an inner join on one left key and two right keys has returned
C8_Witness ==
    /\ 1 \in JoinsRun /\ ~history[1].raised /\ status = "done"
    /\ workflow[1].how = "inner"
    /\ Len(Get(workflow[1].left_on)) = 1 /\ Len(Get(workflow[1].right_on)) = 2
    /\ heap[cur]["out"].err

\* a side of the join as its columns map selects and renames it, where
\* `applies` says which maps are applied
Renamed(f, columns, applies(_)) ==
    IF applies(columns) THEN SelectAliased(f, Get(columns)) ELSE f
NewNames(columns) == {Get(columns)[k][2] : k \in 1..Len(Get(columns))}
\* the join works on the two renamed sides: its plan is their join, its key
\* lists resolve against the new names, and when both maps are applied no
\* other column reaches the result
ProjectedBeforeJoin(k, applies(_)) ==
    LET step == workflow[k]
        L == Renamed(history[k].before[step.left_table], step.left_columns, applies)
        R == Renamed(history[k].before[step.right_table], step.right_columns, applies)
        out == history[k].after[step.output_table]
    IN /\ out = JoinedLf(step, L, R)
       /\ ~out.err =>
            /\ step.how # "cross" =>
                  /\ Range(Get(step.left_on)) \subseteq Range(L.cols)
                  /\ Range(Get(step.right_on)) \subseteq Range(R.cols)
            /\ applies(step.left_columns) /\ applies(step.right_columns) =>
                  Range(out.cols) \subseteq
                      NewNames(step.left_columns) \cup NewNames(step.right_columns)
                      \cup {n \o "_right" : n \in NewNames(step.right_columns)}

\* C9 as stated: every supplied map is applied to its side before the join;
\* only an absent map leaves its side as it is
C9_SuppliedMapsProject ==
    \A k \in JoinsRun : ~history[k].raised =>
        ProjectedBeforeJoin(k, LAMBDA columns : ~IsNone(columns))

\* C9 amended: every non-empty map is applied to its side before the join;
\* an absent or an empty map leaves its side as it is
C9_NonEmptyMapsProject ==
    \A k \in JoinsRun : ~history[k].raised =>
        ProjectedBeforeJoin(k, Truthy)

\* the right key `id` renamed to `key_right` has been joined with
\* right_on = ["key_right"], and only the mapped columns are in the result
C9_Witness ==
    /\ 1 \in JoinsRun /\ ~history[1].raised
    /\ workflow[1].how = "inner"
    /\ workflow[1].left_on = Some(<<"id">>) /\ workflow[1].right_on = Some(<<"key_right">>)
    /\ workflow[1].left_columns = Some(<< <<"id", "id">>, <<"a", "a">> >>)
    /\ workflow[1].right_columns = Some(<< <<"id", "key_right">>, <<"b", "b">> >>)
    /\ history[1].after["out"] = Frame(<<"id", "a", "b">>, << <<<<1>>, <<10>>, <<5>>>> >>)

\* the plan the same join binds when its key lists are absent
WithoutKeys(k) ==
    LET step == [workflow[k] EXCEPT !.left_on = None, !.right_on = None]
        r == JoinExecute(step, <<history[k].before>>, 1, <<>>)
    IN r.heap[r.out][step.output_table]

\* C10: a cross join returns whatever its key lists are, binds the plan it
\* binds when they are absent, and that plan yields every pair of a left
\* and a right row once
C10_CrossIgnoresKeys ==
    \A k \in JoinsRun :
        LET step == workflow[k]
            L == Renamed(history[k].before[step.left_table], step.left_columns, Truthy)
            R == Renamed(history[k].before[step.right_table], step.right_columns, Truthy)
            out == history[k].after[step.output_table]
        IN step.how = "cross" =>
            /\ ~history[k].raised
            /\ out = WithoutKeys(k)
            /\ ~out.err =>
                  /\ Len(out.rows) = Len(L.rows) * Len(R.rows)
                  /\ \A i \in 1..Len(L.rows), j \in 1..Len(R.rows) :
                        out.rows[(i - 1) * Len(R.rows) + j] = L.rows[i] \o R.rows[j]

\* a cross join given key lists on which only one pair of rows agrees has
\* bound all four pairs
C10_Witness ==
    /\ 1 \in JoinsRun /\ ~history[1].raised
    /\ workflow[1].how = "cross"
    /\ workflow[1].left_on = Some(<<"id">>) /\ workflow[1].right_on = Some(<<"id">>)
    /\ workflow[1].left_columns = None /\ workflow[1].right_columns = None
    /\ Len(history[1].after["out"].rows) = 4
    /\ history[1].after["out"].cols = <<"id", "a", "id_right", "b">>

-----------------------------------------------------------------------------
(* add_columns and filter steps on the table of the filter test, run the   *)
(* way the step tests run them (lazy=True).                                *)

SourceFrame ==
    Frame(<<"id", "value", "category">>,
          << <<<<1>>, <<100>>, Str("A")>>, <<<<2>>, <<50>>, Str("B")>>,
             <<<<3>>, <<120>>, Str("A")>>, <<<<4>>, <<80>>, Str("B")>> >>)
SourceSpace == Bind(EmptySpace, "source_table", SourceFrame)

ValueAbove75 == Gt(Col("value"), Const(75))
CategoryA == Eq(Col("category"), ConstantValue(Str("A")))

ColumnSteps == {
    AddColumnsStep("source_table", <<ColumnDefinition("n", Plus(Col("value"), Const(1)))>>),
    AddColumnsStep("source_table", <<ColumnDefinition("n", Plus(Col("value"), Const(2))),
                                     ColumnDefinition("m", Plus(Col("n"), Col("id")))>>),
    AddColumnsStep("source_table", <<ColumnDefinition("value", Plus(Col("value"), Const(1))),
                                     ColumnDefinition("w", Plus(Col("value"), Col("id")))>>),
    AddColumnsStep("source_table", <<ColumnDefinition("all", And(<<>>)),
                                     ColumnDefinition("none", Or(<<>>))>>),
    AddColumnsStep("source_table", <<ColumnDefinition("both", And(<<ValueAbove75, CategoryA>>)),
                                     ColumnDefinition("either", Or(<<ValueAbove75, CategoryA>>))>>),
    AddColumnsStep("source_table", <<ColumnDefinition("lo", Min(<<>>)),
                                     ColumnDefinition("hi", Max(<<>>))>>),
    AddColumnsStep("source_table",
                   <<ColumnDefinition("lo", Min(<<Col("id"), Col("value"), Const(90)>>)),
                     ColumnDefinition("hi", Max(<<Col("id"), Col("value"), Const(90)>>))>>),
    FilterStep("source_table", "filtered_output", And(<<ValueAbove75, CategoryA>>)),
    FilterStep("source_table", "filtered_output", Or(<<ValueAbove75, CategoryA>>)),
    FilterStep("source_table", "filtered_output", And(<<>>)),
    FilterStep("source_table", "filtered_output", Or(<<>>)),
    FilterStep("source_table", "source_table", ValueAbove75),
    FilterStep("ghost", "filtered_output", ValueAbove75)
}

InitColumns ==
    /\ wire = None
    /\ decoded = <<>>
    /\ workflow \in UNION {[1..n -> ColumnSteps] : n \in 0..MaxSteps}
    /\ lazy = TRUE
    /\ snapshot = SourceSpace
    /\ heap = <<snapshot>>
    /\ initial = 1
    /\ cur = 1
    /\ pc = 1
    /\ status = "running"
    /\ sinks = <<>>
    /\ disk = <<>>
    /\ error = NoError
    /\ history = <<>>

ExecFilter ==
    /\ AtStep({"filter"})
    /\ Fold(FilterExecute(workflow[pc], heap, cur, disk))

NextColumns ==
    \/ ExecAddColumns
    \/ ExecFilter
    \/ ReturnLazy

SpecColumns == InitColumns /\ [][NextColumns]_vars

\* the executed steps of one type that returned
Returned(type) == {k \in Executed : workflow[k].type = type /\ ~history[k].raised}

\* C11: an add_columns step evaluates each of its expressions on the table
\* as it was before the step: the k-th column holds, row by row, the value
\* of its expression on the old row, also when an earlier definition of the
\* step replaces a column it reads; an expression that reads a column the
\* old table does not have fails in the engine, also when an earlier
\* definition of the step makes that column; the old columns keep their
\* places and the new ones are appended in the order of the definitions
C11_PreStepSchema ==
    \A k \in Returned("add_columns") :
        LET step == workflow[k]
            old == history[k].before[step.table]
            new == history[k].after[step.table]
            names == [j \in 1..Len(step.columns) |-> step.columns[j].name]
            reads(j) == ExprCols(ToPolars(step.columns[j].expression))
        IN ~old.err =>
            /\ (\E j \in 1..Len(names) : ~(reads(j) \subseteq Range(old.cols))) => new.err
            /\ ~new.err =>
                /\ new.cols = old.cols \o SelectSeq(names, LAMBDA n : n \notin Range(old.cols))
                /\ Len(new.rows) = Len(old.rows)
                /\ \A i \in 1..Len(old.rows) :
                    /\ \A j \in 1..Len(names) :
                          Cell(new, new.rows[i], names[j])
                              = Eval(ToPolars(step.columns[j].expression), old, old.rows[i])
                    /\ \A c \in Range(old.cols) \ Range(names) :
                          Cell(new, new.rows[i], c) = Cell(old, old.rows[i], c)

\* a step that replaces `value` and reads it in a later definition has
\* run: `w` was computed from the old `value`
C11_Witness ==
    /\ 1 \in Returned("add_columns")
    /\ workflow[1].columns[1].name = "value" /\ workflow[1].columns[2].name = "w"
    /\ history[1].before["source_table"].rows[1] = <<<<1>>, <<100>>, Str("A")>>
    /\ history[1].after["source_table"].cols = <<"id", "value", "category", "w">>
    /\ history[1].after["source_table"].rows[1] = <<<<1>>, <<101>>, Str("A"), <<101>>>>

\* C12: a filter step whose output_table is not its input_table binds
\* output_table to the rows of the input table on which the condition is
\* true, in their order and with all columns, and the input_table entry of
\* the returned space is the one of the given space
C12_FilterKeepsTrueRows ==
    \A k \in Returned("filter") :
        LET step == workflow[k]
            input == history[k].before[step.input_table]
            output == history[k].after[step.output_table]
            holds(row) == Eval(ToPolars(step.condition), input, row) = Bool(TRUE)
        IN step.output_table # step.input_table /\ ~input.err =>
            /\ ~output.err
            /\ output.cols = input.cols
            /\ output.rows = SelectSeq(input.rows, holds)
            /\ history[k].after[step.input_table] = input
            /\ DOMAIN history[k].after = DOMAIN history[k].before \cup {step.output_table}

\* the filter of the test, value > 75 and category = "A", has bound
\* filtered_output to the rows 1 and 3 and left the four rows of
\* source_table
C12_Witness ==
    /\ 1 \in Returned("filter")
    /\ workflow[1].condition = And(<<ValueAbove75, CategoryA>>)
    /\ history[1].after["filtered_output"]
          = Frame(<<"id", "value", "category">>,
                  << <<<<1>>, <<100>>, Str("A")>>, <<<<3>>, <<120>>, Str("A")>> >>)
    /\ history[1].after["source_table"] = SourceFrame

\* the value of an operand on a row of a frame
OperandValue(operand, f, row) == Eval(ToPolars(operand), f, row)
\* the column definitions of the returned add_columns steps whose
\* expression has one of the given tags, each with its step
Definitions(types) ==
    UNION {{<<k, j>> : j \in {i \in 1..Len(workflow[k].columns) :
                                workflow[k].columns[i].expression.type \in types}} :
           k \in {i \in Returned("add_columns") : ~history[i].after[workflow[i].table].err}}

\* C13: an `and` without operands is true and an `or` without operands is
\* false in every row of the table it is applied to; with operands, `and`
\* is true in a row exactly when every operand is, and `or` exactly when
\* some operand is; a filter on an empty `and` keeps every row and a filter
\* on an empty `or` keeps none
C13_AndOrIdentities ==
    /\ \A kj \in Definitions({"and", "or"}) :
        LET step == workflow[kj[1]]
            e == step.columns[kj[2]].expression
            old == history[kj[1]].before[step.table]
            new == history[kj[1]].after[step.table]
            n == Len(e.operands)
        IN /\ Len(new.rows) = Len(old.rows)
           /\ \A i \in 1..Len(old.rows) :
                LET cell == Cell(new, new.rows[i], step.columns[kj[2]].name)
                    operand(m) == OperandValue(e.operands[m], old, old.rows[i])
                IN /\ (\A m \in 1..n : IsBool(operand(m))) => IsBool(cell)
                   /\ e.type = "and" =>
                        cell = Bool(\A m \in 1..n : operand(m) = Bool(TRUE))
                   /\ e.type = "or" =>
                        cell = Bool(\E m \in 1..n : operand(m) = Bool(TRUE))
    /\ \A k \in Returned("filter") :
        LET step == workflow[k]
            input == history[k].before[step.input_table]
            output == history[k].after[step.output_table]
        IN ~input.err /\ step.condition.type \in {"and", "or"}
              /\ Len(step.condition.operands) = 0 =>
            /\ ~output.err
            /\ step.condition.type = "and" => output.rows = input.rows
            /\ step.condition.type = "or" => output.rows = <<>>

\* `all` and `none` have been added to the four rows, and a filter on an
\* empty `or` has then kept none of them
C13_Witness ==
    /\ Len(history) >= 2 /\ 1 \in Returned("add_columns") /\ 2 \in Returned("filter")
    /\ workflow[1].columns[1].expression = And(<<>>)
    /\ workflow[1].columns[2].expression = Or(<<>>)
    /\ \A i \in 1..4 :
          SubSeq(history[1].after["source_table"].rows[i], 4, 5) = <<Bool(TRUE), Bool(FALSE)>>
    /\ workflow[2].condition = Or(<<>>)
    /\ Len(history[2].before["source_table"].rows) = 4
    /\ history[2].after["filtered_output"].rows = <<>>

\* C14: a `min` or a `max` without operands is null in every row and does
\* not make the step raise; with operands it is, row by row, the least /
\* the greatest of the operands' values
C14_MinMaxIdentities ==
    /\ \A k \in Executed :
        /\ workflow[k].type = "add_columns"
        /\ workflow[k].table \in DOMAIN history[k].before
        /\ ~history[k].before[workflow[k].table].err
        /\ \A j \in 1..Len(workflow[k].columns) :
              workflow[k].columns[j].expression.type \in {"min", "max"}
        => ~history[k].raised /\ ~history[k].after[workflow[k].table].err
    /\ \A kj \in Definitions({"min", "max"}) :
        LET step == workflow[kj[1]]
            e == step.columns[kj[2]].expression
            old == history[kj[1]].before[step.table]
            new == history[kj[1]].after[step.table]
            n == Len(e.operands)
        IN /\ Len(new.rows) = Len(old.rows)
           /\ \A i \in 1..Len(old.rows) :
                LET cell == Cell(new, new.rows[i], step.columns[kj[2]].name)
                    operand(m) == OperandValue(e.operands[m], old, old.rows[i])
                IN /\ n = 0 => cell = Null
                   /\ n > 0 /\ (\A m \in 1..n : IsInt(operand(m))) =>
                        /\ \E m \in 1..n : cell = operand(m)
                        /\ e.type = "min" => \A m \in 1..n : cell[1] <= operand(m)[1]
                        /\ e.type = "max" => \A m \in 1..n : cell[1] >= operand(m)[1]

\* `lo` and `hi` have been added as an empty min and an empty max, null in
\* the four rows, and then replaced by the min and the max of id, value, 90
C14_Witness ==
    /\ Len(history) >= 2 /\ 1 \in Returned("add_columns") /\ 2 \in Returned("add_columns")
    /\ workflow[1].columns[1].expression = Min(<<>>)
    /\ workflow[1].columns[2].expression = Max(<<>>)
    /\ \A i \in 1..4 : SubSeq(history[1].after["source_table"].rows[i], 4, 5) = <<Null, Null>>
    /\ workflow[2].columns[1].expression = Min(<<Col("id"), Col("value"), Const(90)>>)
    /\ SubSeq(history[2].after["source_table"].rows[1], 4, 5) = <<<<1>>, <<100>>>>
    /\ SubSeq(history[2].after["source_table"].rows[3], 4, 5) = <<<<3>>, <<120>>>>

-----------------------------------------------------------------------------
(* One add_columns step with one expression, over the shapes of substring, *)
(* hash and minus expressions, on a table with a string and an integer     *)
(* column.                                                                 *)

MaxPos == 3

WordsFrame ==
    Frame(<<"s", "n">>,
          << <<Str("hello"), <<1>>>>, <<Str("ab"), <<0>>>>, <<Null, <<2>>>> >>)
WordsSpace == Bind(EmptySpace, "words", WordsFrame)

ParamExprs == {ExprArg(Const(2)), ExprArg(Const(-1)), ExprArg(Col("n"))}
StartParams == {IntLit(n) : n \in 0..MaxPos} \cup {ExprArg(Const(1)), ExprArg(Col("n"))}
LengthParams == {None} \cup {IntLit(n) : n \in (-1)..MaxPos} \cup ParamExprs
SubstringExprs ==
    {Substring(Col("s"), start, length, end) :
        start \in StartParams, length \in LengthParams, end \in LengthParams}
HashTypes == CRYPTOGRAPHIC_HASH_TYPES \cup NON_CRYPTOGRAPHIC_HASH_TYPES
HashEncodings == {"hex", "base64"}
HashExprs == {Hash(hash_type, encoding, Col("s")) : hash_type \in HashTypes,
                                                     encoding \in HashEncodings}
MinusExprs == {Minus(Col("n"), Const(5)), UnaryMinus(Col("n")),
               Minus(Const(5), UnaryMinus(Col("n"))), UnaryMinus(Minus(Col("n"), Const(5)))}
LowerSteps ==
    {AddColumnsStep("words", <<ColumnDefinition("out", e)>>) :
        e \in SubstringExprs \cup HashExprs \cup MinusExprs}

InitLower ==
    /\ wire = None
    /\ decoded = <<>>
    /\ workflow \in {<<step>> : step \in LowerSteps}
    /\ lazy = TRUE
    /\ snapshot = WordsSpace
    /\ heap = <<snapshot>>
    /\ initial = 1
    /\ cur = 1
    /\ pc = 1
    /\ status = "running"
    /\ sinks = <<>>
    /\ disk = <<>>
    /\ error = NoError
    /\ history = <<>>

NextLower ==
    \/ ExecAddColumns
    \/ ReturnLazy

SpecLower == InitLower /\ [][NextLower]_vars

\* the executed add_columns steps whose one expression has the given tag
Lowerings(type) ==
    {k \in Executed : workflow[k].type = "add_columns"
                      /\ workflow[k].columns[1].expression.type = type}
\* execute raised the exception of this type and text from the lowering
LoweringRaised(k, type, text) ==
    /\ history[k].raised /\ status = "failed"
    /\ error.type = type /\ error.text = text
\* the value of a start, length or end that is set, on a row
ParamValue(val, f, row) ==
    IF IsExpression(val) THEN Eval(ToPolars(ArgExpr(val)), f, row) ELSE <<val[1]>>
\* the characters of s at the positions first <= p < last, as far as s has them
Slice(s, first, last) == SubSeq(s, first + 1, IF last < Len(s) THEN last ELSE Len(s))

\* C15: lowering a substring with both `length` and `end` set raises
\* ValueError, whatever they are; so does lowering one whose `length` is a
\* negative integer literal; every other substring is lowered, and on a
\* string s it yields the characters [start, start + length) of s cut at
\* the end of s when `length` (>= 0) is set, the characters [start, end)
\* when `end` (>= start) is set, and the characters from start on when
\* neither is set
C15_SubstringLowering ==
    \A k \in Lowerings("substring") :
        LET e == workflow[k].columns[1].expression
            old == history[k].before["words"]
            new == history[k].after["words"]
            both == ~IsNone(e.length) /\ ~IsNone(e.end)
            negative == ~IsNone(e.length) /\ ~IsExpression(e.length) /\ e.length[1] < 0
            start(row) == ParamValue(e.start, old, row)[1]
            length(row) == ParamValue(e.length, old, row)[1]
            end(row) == ParamValue(e.end, old, row)[1]
            sliceable(row) ==
                /\ ~IsNone(e.length) => length(row) >= 0
                /\ ~IsNone(e.end) => end(row) >= start(row)
        IN /\ both => LoweringRaised(k, "ValueError",
                        "SubstringExpression cannot have both 'length' and 'end' defined.")
           /\ negative /\ ~both =>
                LoweringRaised(k, "ValueError", "SubstringExpression 'length' cannot be negative.")
           /\ ~both /\ ~negative =>
                /\ ~history[k].raised
                /\ (\A i \in 1..Len(old.rows) : sliceable(old.rows[i])) =>
                    /\ ~new.err
                    /\ new.cols = <<"s", "n", "out">>
                    /\ \A i \in 1..Len(old.rows) :
                        LET row == old.rows[i]
                            s == Cell(old, row, "s")
                            out == Cell(new, new.rows[i], "out")
                        IN s # Null =>
                            /\ ~IsNone(e.length) =>
                                  out = Str(Slice(s[3], start(row), start(row) + length(row)))
                            /\ ~IsNone(e.end) => out = Str(Slice(s[3], start(row), end(row)))
                            /\ IsNone(e.length) /\ IsNone(e.end) =>
                                  out = Str(Slice(s[3], start(row), Len(s[3])))

\* substring(s, start=1, length=3) has been lowered and gives "ell" for
\* "hello" and "b" for "ab"
C15_Witness ==
    /\ 1 \in Lowerings("substring") /\ ~history[1].raised
    /\ workflow[1].columns[1].expression = Substring(Col("s"), IntLit(1), IntLit(3), None)
    /\ Cell(history[1].after["words"], history[1].after["words"].rows[1], "out") = Str("ell")
    /\ Cell(history[1].after["words"], history[1].after["words"].rows[2], "out") = Str("b")
    /\ Cell(history[1].after["words"], history[1].after["words"].rows[3], "out") = Null

\* the integer literals of a substring's start and end, end before start
EndBeforeStart(e) ==
    /\ IsNone(e.length) /\ ~IsNone(e.end)
    /\ ~IsExpression(e.start) /\ ~IsExpression(e.end)
    /\ e.end[1] < e.start[1]

\* C16: lowering a substring whose `end` is an integer literal less than
\* the integer literal of its `start` raises, so that the step that lowers
\* it returns no plan
C16_EndBeforeStartRaises ==
    \A k \in Lowerings("substring") :
        EndBeforeStart(workflow[k].columns[1].expression) => history[k].raised

C27_HashBase64FailsAtCollect ==
    \A k \in Lowerings("hash") :
        LET e == workflow[k].columns[1].expression
        IN  e.hash_type \in {"wyhash", "xxh3"} /\ e.encoding = "base64" =>
                /\ ~history[k].raised
                /\ history[k].after["words"].err

-----------------------------------------------------------------------------
(* One add_columns step with one rank or cumsum expression, on the tables  *)
(* of the rank test and of the cumsum test, run the way the tests run it   *)
(* (lazy=True).                                                            *)

RankFrame ==
    Frame(<<"id", "category", "value">>,
          << <<<<1>>, Str("A"), <<100>>>>, <<<<2>>, Str("B"), <<200>>>>,
             <<<<3>>, Str("A"), <<150>>>>, <<<<4>>, Str("B"), <<200>>>>,
             <<<<5>>, Str("A"), <<100>>>>, <<<<6>>, Str("B"), <<300>>>> >>)
CumsumFrame ==
    Frame(<<"id", "category", "value", "order_col">>,
          << <<<<1>>, Str("A"), <<10>>, <<1>>>>, <<<<2>>, Str("A"), <<20>>, <<2>>>>,
             <<<<3>>, Str("B"), <<5>>, <<1>>>>, <<<<4>>, Str("A"), <<15>>, <<3>>>>,
             <<<<5>>, Str("B"), <<10>>, <<2>>>>, <<<<6>>, Str("B"), <<20>>, <<3>>>> >>)
WindowSpaces ==
    {Bind(EmptySpace, "data_table", RankFrame), Bind(EmptySpace, "data_table", CumsumFrame)}

OrderKeys ==
    {<<>>, <<Col("value")>>, <<Col("id")>>, <<Col("value"), Col("id")>>,
     <<Col("value"), Col("order_col")>>}
Partitions == {<<>>, <<Col("category")>>}
RankExprs == {Rank(o, p, d) : o \in OrderKeys, p \in Partitions, d \in BOOLEAN}
CumsumExprs ==
    {Cumsum(Col("value"), o, p, d) :
        o \in {<<>>, <<Col("order_col")>>, <<Col("id")>>}, p \in Partitions, d \in BOOLEAN}
WindowSteps ==
    {AddColumnsStep("data_table", <<ColumnDefinition("out", e)>>) :
        e \in RankExprs \cup CumsumExprs}

InitWindow ==
    /\ wire = None
    /\ decoded = <<>>
    /\ workflow \in {<<step>> : step \in WindowSteps}
    /\ lazy = TRUE
    /\ snapshot \in WindowSpaces
    /\ heap = <<snapshot>>
    /\ initial = 1
    /\ cur = 1
    /\ pc = 1
    /\ status = "running"
    /\ sinks = <<>>
    /\ disk = <<>>
    /\ error = NoError
    /\ history = <<>>

NextWindow == ExecAddColumns \/ ReturnLazy

SpecWindow == InitWindow /\ [][NextWindow]_vars

\* the values of a list of expressions on a row
KeyOf(exprs, f, row) == [k \in 1..Len(exprs) |-> Eval(ToPolars(exprs[k]), f, row)[1]]
\* key x is sorted ahead of key y: the first field in which they differ is
\* smaller in x, or larger when descending
KeyAhead(x, y, descending) ==
    \E m \in 1..Len(x) :
        /\ \A k \in 1..(m - 1) : x[k] = y[k]
        /\ IF descending THEN x[m] > y[m] ELSE x[m] < y[m]
\* the rows of the partition of row i
PartitionOf(exprs, f, i) ==
    {j \in 1..Len(f.rows) :
        \A k \in 1..Len(exprs) :
            Eval(ToPolars(exprs[k]), f, f.rows[j]) = Eval(ToPolars(exprs[k]), f, f.rows[i])}
\* the executed steps whose expression is of this type and whose plan can
\* be collected
Windowed(type) ==
    {k \in Lowerings(type) : ~history[k].raised /\ ~history[k].after["data_table"].err}

OutColumn ==
    LET new == heap[cur]["data_table"]
    IN  [i \in 1..Len(new.rows) |-> Cell(new, new.rows[i], "out")[1]]

\* C24: rank(order_by=[value, id], partition_by=[category], descending) on
\* the table of the rank test gives rows of a partition with the same value
\* the same rank, without gaps: 1, 2, 2 for the values 150, 100, 100 of A
\* and for the values 300, 200, 200 of B
C24_RankTiesShareRank ==
    /\ 1 \in Windowed("rank") /\ status = "done"
    /\ workflow[1].columns[1].expression
          = Rank(<<Col("value"), Col("id")>>, <<Col("category")>>, TRUE)
    /\ history[1].before["data_table"] = RankFrame
    => OutColumn = <<2, 2, 1, 2, 2, 1>>

\* C25: the value a cumsum expression writes to a row is the sum of `value`
\* over the rows of its partition that are sorted at or before it by the
\* key [value] ++ additional_order_by, all keys ascending or all descending
C25_CumsumAlignedToRows ==
    \A k \in Windowed("cumsum") :
        LET e == workflow[k].columns[1].expression
            old == history[k].before["data_table"]
            new == history[k].after["data_table"]
            key(i) == KeyOf(<<ArgExpr(e.value)>> \o e.additional_order_by, old, old.rows[i])
            value(i) == Eval(ToPolars(ArgExpr(e.value)), old, old.rows[i])[1]
            RECURSIVE Sum(_)
            Sum(rows) == IF rows = {} THEN 0
                         ELSE LET j == CHOOSE j \in rows : TRUE
                              IN  value(j) + Sum(rows \ {j})
        IN  \A i \in 1..Len(old.rows) :
                Cell(new, new.rows[i], "out")[1]
                    = Sum({j \in PartitionOf(e.partition_by, old, i) :
                              \/ j = i
                              \/ KeyAhead(key(j), key(i), e.descending)
                              \/ key(j) = key(i) /\ j < i})

\* C28: a rank expression with an empty order_by makes to_polars raise
\* ValueError whatever partition_by and descending are; the add_columns
\* step raises it from execute, returns no table space and builds no plan
C28_EmptyOrderByRaises ==
    \A k \in Lowerings("rank") :
        Len(workflow[k].columns[1].expression.order_by) = 0 =>
            /\ LoweringRaised(k, "ValueError",
                              "RankExpression requires at least one 'order_by' expression.")
            /\ Len(heap) = 1 /\ cur = 1
            /\ "out" \notin Range(heap[cur]["data_table"].cols)

\* a rank with an empty order_by and a partition_by has made the step raise
C28_Witness ==
    /\ 1 \in Lowerings("rank") /\ history[1].raised /\ status = "failed"
    /\ workflow[1].columns[1].expression = Rank(<<>>, <<Col("category")>>, TRUE)
    /\ error.type = "ValueError"

-----------------------------------------------------------------------------
(* Decoding.  The classes the package can decode to are the members of the *)
(* unions AnyPStep and AnyExpression; a class is found by its tag.         *)

\* steps/__init__.py: the names the package ptabler.steps binds
StepsNamespace ==
    {"PStep", "GlobalSettings", "TableSpace", "ReadCsv", "WriteCsv", "WriteJson",
     "AddColumns", "Select", "WithColumns", "WithoutColumns", "Filter", "Join",
     "Aggregate", "Concatenate", "Sort", "AnyPStep"}

AnyPStep ==
    {"ReadCsv", "WriteCsv", "WriteJson", "AddColumns", "Select", "WithColumns", "Filter",
     "Join", "Aggregate", "Concatenate", "Sort", "WithoutColumns"}

\* the tag of each step class that is defined under steps/ here
StepTagInSrc ==
    [ReadCsv |-> "read_csv", WriteCsv |-> "write_csv", WriteJson |-> "write_json",
     AddColumns |-> "add_columns", Join |-> "join"]
\* the tag of the other step classes
StepTagElsewhere ==
    [Select |-> "select", WithColumns |-> "with_columns",
     WithoutColumns |-> "without_columns", Filter |-> "filter", Aggregate |-> "aggregate",
     Concatenate |-> "concatenate", Sort |-> "sort"]
StepTag(cls) ==
    IF cls \in DOMAIN StepTagInSrc THEN StepTagInSrc[cls] ELSE StepTagElsewhere[cls]

\* the tag of each expression class that is defined under expression/ here
ExpressionTagInSrc ==
    [GtExpression |-> "gt", GeExpression |-> "ge", EqExpression |-> "eq",
     LtExpression |-> "lt", LeExpression |-> "le", NeqExpression |-> "neq",
     PlusExpression |-> "plus", MinusExpression |-> "minus",
     MultiplyExpression |-> "multiply", TrueDivExpression |-> "truediv",
     FloorDivExpression |-> "floordiv", Log10Expression |-> "log10",
     LogExpression |-> "log", Log2Expression |-> "log2", AbsExpression |-> "abs",
     SqrtExpression |-> "sqrt", UnaryMinusExpression |-> "minus",
     AndExpression |-> "and", OrExpression |-> "or", NotExpression |-> "not",
     IsNaExpression |-> "is_na", IsNotNaExpression |-> "is_not_na",
     ColumnReferenceExpression |-> "col", ConstantValueExpression |-> "const",
     MinExpression |-> "min", MaxExpression |-> "max",
     StringJoinExpression |-> "str_join", ToUpperExpression |-> "to_upper",
     ToLowerExpression |-> "to_lower", StrLenExpression |-> "str_len",
     SubstringExpression |-> "substring", StringReplaceExpression |-> "str_replace",
     StructFieldExpression |-> "struct_field", HashExpression |-> "hash",
     RankExpression |-> "rank", CumsumExpression |-> "cumsum"]
\* the tag of the expression classes of fuzzy.py and conditional.py
ExpressionTagElsewhere ==
    [StringDistanceExpression |-> "string_distance",
     FuzzyStringFilterExpression |-> "fuzzy_string_filter",
     WhenThenOtherwiseExpression |-> "when_then_otherwise"]
ExpressionTag(cls) ==
    IF cls \in DOMAIN ExpressionTagInSrc THEN ExpressionTagInSrc[cls]
    ELSE ExpressionTagElsewhere[cls]

\* every expression class there is
ExpressionClasses == DOMAIN ExpressionTagInSrc \cup DOMAIN ExpressionTagElsewhere

\* fault variant of AnyExpression: the union lacks the unary minus
AnyExpressionBinaryMinusOnly ==
    ExpressionClasses \ {"UnaryMinusExpression", "StringReplaceExpression",
                         "StructFieldExpression"}

\* expression/__init__.py: the members of the union AnyExpression
AnyExpression ==
    {"GtExpression", "GeExpression", "EqExpression", "LtExpression", "LeExpression",
     "NeqExpression", "PlusExpression", "MinusExpression", "MultiplyExpression",
     "TrueDivExpression", "FloorDivExpression", "Log10Expression", "LogExpression",
     "Log2Expression", "AbsExpression", "SqrtExpression", "UnaryMinusExpression",
     "AndExpression", "OrExpression", "NotExpression", "IsNaExpression",
     "IsNotNaExpression", "ColumnReferenceExpression", "ConstantValueExpression",
     "MinExpression", "MaxExpression", "StringJoinExpression", "ToUpperExpression",
     "ToLowerExpression", "StrLenExpression", "SubstringExpression",
     "StringDistanceExpression", "FuzzyStringFilterExpression",
     "WhenThenOtherwiseExpression", "RankExpression", "CumsumExpression",
     "HashExpression"}

\* the classes by the fields they declare
ComparisonClasses ==
    {"GtExpression", "GeExpression", "EqExpression", "LtExpression", "LeExpression",
     "NeqExpression"}
BinaryArithmeticClasses ==
    {"PlusExpression", "MinusExpression", "MultiplyExpression", "TrueDivExpression",
     "FloorDivExpression"}
UnaryArithmeticClasses ==
    {"Log10Expression", "LogExpression", "Log2Expression", "AbsExpression",
     "SqrtExpression", "UnaryMinusExpression"}
ValueClasses ==
    {"NotExpression", "IsNaExpression", "IsNotNaExpression", "ToUpperExpression",
     "ToLowerExpression", "StrLenExpression"}
OperandsClasses ==
    {"AndExpression", "OrExpression", "MinExpression", "MaxExpression",
     "StringJoinExpression"}

\* the fields of a class that have no default, under the names they have in
\* the document
RequiredFields(cls) ==
    CASE cls \in ComparisonClasses \cup BinaryArithmeticClasses -> {"lhs", "rhs"}
      [] cls \in UnaryArithmeticClasses \cup ValueClasses -> {"value"}
      [] cls \in OperandsClasses -> {"operands"}
      [] cls = "ColumnReferenceExpression" -> {"name"}
      [] cls = "ConstantValueExpression" -> {"value"}
      [] cls = "SubstringExpression" -> {"value", "start"}
      [] cls = "StringReplaceExpression" -> {"value", "pattern", "replacement"}
      [] cls = "StructFieldExpression" -> {"struct", "fields"}
      [] cls = "HashExpression" -> {"hashType", "encoding", "value"}
      [] cls = "RankExpression" -> {"orderBy", "partitionBy"}
      [] cls = "CumsumExpression" -> {"value", "additionalOrderBy", "partitionBy"}
      [] OTHER -> {}

\* the classes whose lowering and evaluation are followed further
LoweredClasses ==
    {"GtExpression", "EqExpression", "PlusExpression", "MinusExpression",
     "UnaryMinusExpression", "AndExpression", "OrExpression", "MinExpression",
     "MaxExpression", "ColumnReferenceExpression", "ConstantValueExpression",
     "SubstringExpression", "HashExpression"}

\* the document does not decode
DecodeFailure(text, tag) ==
    [type |-> "ValidationError", text |-> text, arg |-> tag, available |-> {}]

\* the outcome of decoding one object
Decoding(err, cls, node, lowered) ==
    [error |-> err, class |-> cls, node |-> node, lowered |-> lowered]
Undecoded(err) == Decoding(err, "", Col(""), FALSE)

\* an optional field of the document
Optional(obj, field) == IF field \in DOMAIN obj THEN obj[field] ELSE None

\* An object decodes to the class of the union that carries its tag; where
\* two classes carry one tag, to the one whose fields the object has.
RECURSIVE DecodeExpressionIn(_, _)
DecodeParam(union, val) ==
    IF IsExpression(val) THEN DecodeExpressionIn(union, ArgExpr(val))
    ELSE Decoding(NoError, "", Col(""), TRUE)
DecodedParam(union, val) ==
    IF IsExpression(val) THEN ExprArg(DecodeExpressionIn(union, ArgExpr(val)).node) ELSE val
DecodeExpressionIn(union, obj) ==
    LET tagged == {c \in union : ExpressionTag(c) = obj.type}
        fitting == {c \in tagged : RequiredFields(c) \subseteq DOMAIN obj}
    IN  IF tagged = {} THEN Undecoded(DecodeFailure("Invalid value", obj.type))
        ELSE IF fitting = {}
        THEN Undecoded(DecodeFailure("Object missing required field", obj.type))
        ELSE
        LET cls == CHOOSE c \in fitting : TRUE
            children ==
                CASE cls \in ComparisonClasses \cup BinaryArithmeticClasses ->
                        <<DecodeExpressionIn(union, obj.lhs), DecodeExpressionIn(union, obj.rhs)>>
                  [] cls \in UnaryArithmeticClasses \cup ValueClasses
                             \cup {"HashExpression"} ->
                        <<DecodeExpressionIn(union, ArgExpr(obj.value))>>
                  [] cls \in OperandsClasses ->
                        [k \in 1..Len(obj.operands) |-> DecodeExpressionIn(union, obj.operands[k])]
                  [] cls = "SubstringExpression" ->
                        <<DecodeExpressionIn(union, ArgExpr(obj.value)),
                          DecodeParam(union, obj.start),
                          DecodeParam(union, Optional(obj, "length")),
                          DecodeParam(union, Optional(obj, "end"))>>
                  [] OTHER -> <<>>
            err == FirstError([k \in 1..Len(children) |-> children[k].error])
            lowered == cls \in LoweredClasses
                       /\ \A k \in 1..Len(children) : children[k].lowered
            node ==
                CASE cls \in (ComparisonClasses \cup BinaryArithmeticClasses)
                             \cap LoweredClasses ->
                        [type |-> obj.type, lhs |-> children[1].node, rhs |-> children[2].node]
                  [] cls = "UnaryMinusExpression" -> UnaryMinus(children[1].node)
                  [] cls \in OperandsClasses \cap LoweredClasses ->
                        [type |-> obj.type,
                         operands |-> [k \in 1..Len(children) |-> children[k].node]]
                  [] cls = "ColumnReferenceExpression" -> Col(obj.name)
                  [] cls = "ConstantValueExpression" -> ConstantValue(obj.value)
                  [] cls = "SubstringExpression" ->
                        Substring(children[1].node, DecodedParam(union, obj.start),
                                  DecodedParam(union, Optional(obj, "length")),
                                  DecodedParam(union, Optional(obj, "end")))
                  [] cls = "HashExpression" ->
                        Hash(obj.hashType, obj.encoding, children[1].node)
                  [] OTHER -> Col("")
        IN  IF err # NoError THEN Undecoded(err) ELSE Decoding(NoError, cls, node, lowered)

DecodeExpression(obj) == DecodeExpressionIn(AnyExpression, obj)

\* the step classes whose fields are followed further
ExecutedClasses == {"AddColumns"}

DecodeColumns(columns) ==
    [k \in 1..Len(columns) |-> DecodeExpression(columns[k].expression)]

\* A step object decodes to the class of AnyPStep that carries its tag.
DecodeStep(obj) ==
    LET tagged == {c \in AnyPStep : StepTag(c) = obj.type}
    IN  IF tagged = {}
        THEN [error |-> DecodeFailure("Invalid value", obj.type), class |-> "",
              expressions |-> <<>>, step |-> [type |-> obj.type], executed |-> FALSE]
        ELSE
        LET cls == CHOOSE c \in tagged : TRUE
        IN  IF cls = "AddColumns"
            THEN LET exprs == DecodeColumns(obj.columns)
                 IN  [error |-> FirstError([k \in 1..Len(exprs) |-> exprs[k].error]),
                      class |-> cls,
                      expressions |-> [k \in 1..Len(exprs) |-> exprs[k].class],
                      step |-> AddColumnsStep(obj.table,
                                  [k \in 1..Len(exprs) |->
                                      ColumnDefinition(obj.columns[k].name, exprs[k].node)]),
                      executed |-> \A k \in 1..Len(exprs) : exprs[k].lowered]
            ELSE [error |-> NoError, class |-> cls, expressions |-> <<>>,
                  step |-> [type |-> obj.type], executed |-> FALSE]

\* the document { "workflow": [ <step>, ... ] }
DecodeDocument(doc) == [k \in 1..Len(doc.workflow) |-> DecodeStep(doc.workflow[k])]

\* The document is decoded as a whole: one object that does not decode
\* fails the document.
DecodeWorkflow ==
    /\ status = "decoding"
    /\ LET steps == DecodeDocument(Get(wire))
           err == FirstError([k \in 1..Len(steps) |-> steps[k].error])
       IN  IF err # NoError
           THEN /\ status' = "failed"
                /\ error' = err
                /\ UNCHANGED <<workflow, decoded>>
           ELSE /\ workflow' = [k \in 1..Len(steps) |-> steps[k].step]
                /\ decoded' = [k \in 1..Len(steps) |->
                                 [class |-> steps[k].class,
                                  expressions |-> steps[k].expressions]]
                /\ status' = IF \A k \in 1..Len(steps) : steps[k].executed
                             THEN "running" ELSE "decoded"
                /\ error' = error
    /\ UNCHANGED <<wire, lazy, heap, initial, snapshot, cur, pc, sinks, disk, history>>

-----------------------------------------------------------------------------
(* SpecDecode: a workflow document is decoded, and a decoded workflow of   *)
(* add_columns steps is executed on the table "words".                     *)

\* the tags the interface description lists
RecognizedStepTags ==
    {"read_csv", "read_ndjson", "write_csv", "write_ndjson", "write_json", "add_columns",
     "select", "with_columns", "without_columns", "filter", "join", "aggregate",
     "concatenate", "sort"}
RecognizedExpressionTags ==
    {"gt", "ge", "eq", "lt", "le", "neq", "plus", "minus", "multiply", "truediv",
     "floordiv", "log10", "log", "log2", "abs", "sqrt", "and", "or", "not", "is_na",
     "is_not_na", "col", "const", "min", "max", "str_join", "to_upper", "to_lower",
     "str_len", "substring", "str_replace", "struct_field", "hash", "string_distance",
     "fuzzy_string_filter", "when_then_otherwise", "rank", "cumsum"}

\* objects of the document
ColObject(name) == [type |-> "col", name |-> name]
ConstObject(n) == [type |-> "const", value |-> <<n>>]
BinaryObject(tag, l, r) == [type |-> tag, lhs |-> l, rhs |-> r]
ValueObject(tag, v) == [type |-> tag, value |-> ExprArg(v)]
OperandsObject(tag, operands) == [type |-> tag, operands |-> operands]
AddColumnsObject(table, columns) ==
    [type |-> "add_columns", table |-> table, columns |-> columns]
ColumnObject(name, expression) == [name |-> name, expression |-> expression]
Document(steps) == [workflow |-> steps]

\* one object for every listed tag, with the fields of its class
TagObjects ==
    {BinaryObject(t, ColObject("n"), ConstObject(5)) :
        t \in {"gt", "ge", "eq", "lt", "le", "neq", "plus", "minus", "multiply",
               "truediv", "floordiv"}}
    \cup {ValueObject(t, ColObject("n")) :
        t \in {"log10", "log", "log2", "abs", "sqrt", "minus", "not", "is_na",
               "is_not_na"}}
    \cup {ValueObject(t, ColObject("s")) : t \in {"to_upper", "to_lower", "str_len"}}
    \cup {OperandsObject(t, <<BinaryObject("gt", ColObject("n"), ConstObject(0))>>) :
        t \in {"and", "or"}}
    \cup {OperandsObject(t, <<ColObject("n"), ConstObject(1)>>) :
        t \in {"min", "max", "str_join"}}
    \cup {ColObject("n"), ConstObject(5)}
    \cup {[type |-> "substring", value |-> ExprArg(ColObject("s")), start |-> IntLit(1)],
          [type |-> "substring", value |-> ExprArg(ColObject("s")), start |-> IntLit(1),
           length |-> ExprArg(ColObject("n"))],
          [type |-> "str_replace", value |-> ExprArg(ColObject("s")), pattern |-> "l",
           replacement |-> "L"],
          [type |-> "struct_field", struct |-> ColObject("s"), fields |-> "a"],
          [type |-> "hash", value |-> ExprArg(ColObject("s")), hashType |-> "sha256",
           encoding |-> "hex"],
          [type |-> "string_distance", string1 |-> ColObject("s"),
           string2 |-> ColObject("s"), metric |-> "levenshtein"],
          [type |-> "fuzzy_string_filter", value |-> ExprArg(ColObject("s")),
           pattern |-> "ab", metric |-> "levenshtein", bound |-> 1],
          [type |-> "when_then_otherwise", conditions |-> <<>>,
           otherwise |-> ColObject("n")],
          [type |-> "rank", orderBy |-> <<ColObject("n")>>, partitionBy |-> <<>>],
          [type |-> "cumsum", value |-> ExprArg(ColObject("n")),
           additionalOrderBy |-> <<>>, partitionBy |-> <<>>]}
\* objects with a tag that is not listed, or without the fields of the class
OtherObjects ==
    {ValueObject("median", ColObject("n")), [type |-> "bogus"],
     [type |-> "minus", lhs |-> ColObject("n")], [type |-> "plus", value |-> ExprArg(ColObject("n"))]}
\* the two shapes of minus, also one inside the other
MinusObjects ==
    {BinaryObject("minus", ColObject("n"), ConstObject(5)),
     ValueObject("minus", ColObject("n")),
     BinaryObject("minus", ConstObject(5), ValueObject("minus", ColObject("n"))),
     ValueObject("minus", BinaryObject("minus", ColObject("n"), ConstObject(5))),
     ValueObject("minus", ValueObject("minus", ColObject("n"))),
     BinaryObject("plus", ValueObject("minus", ColObject("n")), ColObject("n"))}

StepObjects ==
    {[type |-> t, file |-> "words.csv", name |-> "words"] : t \in {"read_csv", "read_ndjson"}}
    \cup {[type |-> t, table |-> "words", file |-> "out"] :
            t \in {"write_csv", "write_ndjson", "write_json"}}
    \cup {[type |-> t] :
            t \in {"select", "with_columns", "without_columns", "filter", "join",
                   "aggregate", "concatenate", "sort", "pivot"}}
    \cup {AddColumnsObject("words", <<>>)}

StepDocuments == {Document(<<step>>) : step \in StepObjects}
ExpressionDocuments ==
    {Document(<<AddColumnsObject("words", <<ColumnObject("out", e)>>)>>) :
        e \in TagObjects \cup OtherObjects \cup MinusObjects}
MinusDocuments ==
    {Document(<<AddColumnsObject("words", <<ColumnObject("a", e1)>>),
                AddColumnsObject("words", <<ColumnObject("b", e2)>>)>>) :
        e1 \in MinusObjects, e2 \in MinusObjects}
Documents == StepDocuments \cup ExpressionDocuments \cup MinusDocuments

InitDecode ==
    /\ wire \in {Some(doc) : doc \in Documents}
    /\ decoded = <<>>
    /\ workflow = <<>>
    /\ lazy = TRUE
    /\ snapshot = WordsSpace
    /\ heap = <<snapshot>>
    /\ initial = 1
    /\ cur = 1
    /\ pc = 1
    /\ status = "decoding"
    /\ sinks = <<>>
    /\ disk = <<>>
    /\ error = NoError
    /\ history = <<>>

NextDecode == DecodeWorkflow \/ ExecAddColumns \/ ReturnLazy

SpecDecode == InitDecode /\ [][NextDecode]_vars

\* the document has been decoded, or has failed to
AfterDecoding == ~IsNone(wire) /\ status # "decoding"
Rejected == status = "failed" /\ error.type = "ValidationError" /\ workflow = <<>>
Accepted == ~Rejected /\ Len(workflow) = Len(Get(wire).workflow)

\* C18: a step object with any of the listed step tags decodes to a step of
\* a variant the package ptabler.steps has, of that tag; read_ndjson and
\* write_ndjson decode to ReadNdjson and WriteNdjson.
C18_ListedStepTagsDecode ==
    AfterDecoding /\ Get(wire) \in StepDocuments
    => LET tag == Get(wire).workflow[1].type
       IN  tag \in RecognizedStepTags
           => /\ Accepted
              /\ workflow[1].type = tag
              /\ decoded[1].class \in StepsNamespace
              /\ tag = "read_ndjson" => decoded[1].class = "ReadNdjson"
              /\ tag = "write_ndjson" => decoded[1].class = "WriteNdjson"

\* C19: an expression object with any of the listed expression tags, and the
\* fields of its class, is accepted where a column's expression is expected,
\* and an object with any other tag is rejected.
C19_ListedExpressionTagsDecode ==
    AfterDecoding /\ Get(wire) \in ExpressionDocuments
    => LET e == Get(wire).workflow[1].columns[1].expression
       IN  /\ e \in TagObjects => Accepted /\ ExpressionTag(decoded[1].expressions[1]) = e.type
           /\ e.type \notin RecognizedExpressionTags => Rejected

\* the steps of the document whose one expression carries the tag minus
MinusSteps ==
    {k \in 1..Len(Get(wire).workflow) :
        /\ Get(wire).workflow[k].type = "add_columns"
        /\ Len(Get(wire).workflow[k].columns) = 1
        /\ Get(wire).workflow[k].columns[1].expression.type = "minus"}
HasFields(obj, fields) == fields \subseteq DOMAIN obj

-----------------------------------------------------------------------------
(* Field names.  A class built on msgspec.Struct reads each of its fields   *)
(* from the key its name is encoded to: the name itself, or, with          *)
(* rename="camel", the name with its underscores dropped and every word    *)
(* after the first capitalised.  A field name is held as the list of its   *)
(* words.  A key that is no field of the class is skipped unless the class *)
(* forbids unknown fields; a field without a key takes its default.        *)

Capitalize(word) ==
    CASE word = "value" -> "Value" [] word = "type" -> "Type" [] word = "by" -> "By"
      [] word = "order" -> "Order" [] word = "rows" -> "Rows"

RECURSIVE SnakeName(_)
SnakeName(words) ==
    IF Len(words) = 1 THEN words[1] ELSE words[1] \o "_" \o SnakeName(Tail(words))
RECURSIVE Capitalized(_)
Capitalized(words) ==
    IF Len(words) = 0 THEN "" ELSE Capitalize(Head(words)) \o Capitalized(Tail(words))
CamelName(words) == words[1] \o Capitalized(Tail(words))

\* the key a field is read from under the class's rename
EncodedName(rename, words) ==
    IF rename = "camel" THEN CamelName(words) ELSE SnakeName(words)

\* the rename= each class is declared with, "" where it has none
StructRename(cls) ==
    CASE cls = "ColumnSchema" -> ""
      [] cls \in {"ColumnDefinition", "HashExpression", "RankExpression",
                  "CumsumExpression"} -> "camel"

\* PStep is declared in steps/base.py: what it sets for rename and for
\* forbid_unknown_fields, which its subclasses inherit, is either way
PStepConfigs == [rename : {"", "camel"}, forbid_unknown_fields : BOOLEAN]

OptionalField(obj, key) == IF key \in DOMAIN obj THEN Some(obj[key]) ELSE None
MissingField(key) ==
    [type |-> "ValidationError", text |-> "Object missing required field", arg |-> key,
     available |-> {}]
UnknownField(type, text, obj, keys) ==
    IF DOMAIN obj \subseteq keys THEN NoError
    ELSE [type |-> type, text |-> text, arg |-> CHOOSE key \in DOMAIN obj \ keys : TRUE,
          available |-> {}]
Require(obj, key) == IF key \in DOMAIN obj THEN NoError ELSE MissingField(key)

\* one entry of a read_csv schema decodes to a ColumnSchema
DecodeColumnSchema(obj) ==
    LET key(words) == EncodedName(StructRename("ColumnSchema"), words)
    IN  IF key(<<"column">>) \notin DOMAIN obj
        THEN [error |-> MissingField(key(<<"column">>)), value |-> ColumnSchema("", None, None)]
        ELSE [error |-> NoError,
              value |-> ColumnSchema(obj[key(<<"column">>)],
                                     OptionalField(obj, key(<<"type">>)),
                                     OptionalField(obj, key(<<"null", "value">>)))]

\* a step object with the tag read_csv decodes to a ReadCsv
DecodeReadCsv(obj, config) ==
    LET key(words) == EncodedName(config.rename, words)
        fields == {key(<<"file">>), key(<<"name">>), key(<<"delimiter">>),
                   key(<<"schema">>), key(<<"columns">>)}
        entries == IF key(<<"schema">>) \in DOMAIN obj
                   THEN [k \in 1..Len(obj[key(<<"schema">>)]) |->
                            DecodeColumnSchema(obj[key(<<"schema">>)][k])]
                   ELSE <<>>
        err == FirstError(<<Require(obj, key(<<"file">>)), Require(obj, key(<<"name">>)),
                            IF config.forbid_unknown_fields
                            THEN UnknownField("ValidationError", "Object contains unknown field",
                                              obj, fields \cup {"type"})
                            ELSE NoError>>
                          \o [k \in 1..Len(entries) |-> entries[k].error])
    IN  [error |-> err, class |-> "ReadCsv",
         step |-> IF err # NoError THEN [type |-> obj.type]
                  ELSE ReadCsv(obj[key(<<"file">>)], obj[key(<<"name">>)],
                               OptionalField(obj, key(<<"delimiter">>)),
                               IF key(<<"schema">>) \in DOMAIN obj
                               THEN Some([k \in 1..Len(entries) |-> entries[k].value])
                               ELSE None,
                               OptionalField(obj, key(<<"columns">>)))]

\* a step object with the tag write_csv decodes to a WriteCsv
DecodeWriteCsv(obj, config) ==
    LET key(words) == EncodedName(config.rename, words)
        fields == {key(<<"table">>), key(<<"file">>), key(<<"columns">>),
                   key(<<"delimiter">>)}
        err == FirstError(<<Require(obj, key(<<"table">>)), Require(obj, key(<<"file">>)),
                            IF config.forbid_unknown_fields
                            THEN UnknownField("ValidationError", "Object contains unknown field",
                                              obj, fields \cup {"type"})
                            ELSE NoError>>)
    IN  [error |-> err, class |-> "WriteCsv",
         step |-> IF err # NoError THEN [type |-> obj.type]
                  ELSE WriteCsvStep(obj[key(<<"table">>)], obj[key(<<"file">>)],
                                    OptionalField(obj, key(<<"columns">>)))]

DecodeIOStep(obj, config) ==
    IF obj.type = "read_csv" THEN DecodeReadCsv(obj, config) ELSE DecodeWriteCsv(obj, config)

\* ReadCsv(**keywords), WriteCsv(**keywords): the keywords are the field
\* names, and a keyword that is no field is a TypeError
ConstructIOStep(keywords) ==
    LET made == DecodeIOStep(keywords, [rename |-> "", forbid_unknown_fields |-> FALSE])
        fields == IF keywords.type = "read_csv"
                  THEN {"type", "file", "name", "delimiter", "schema", "columns"}
                  ELSE {"type", "table", "file", "columns", "delimiter"}
        unexpected == UnknownField("TypeError", "Unexpected keyword argument", keywords, fields)
    IN  IF unexpected # NoError THEN [made EXCEPT !.error = unexpected, !.step = [type |-> keywords.type]]
        ELSE made

\* the steps have been made: the workflow holds them, or making one failed
Load(steps) ==
    LET err == FirstError([k \in 1..Len(steps) |-> steps[k].error])
    IN  /\ IF err # NoError
           THEN /\ status' = "failed"
                /\ error' = err
                /\ UNCHANGED <<workflow, decoded>>
           ELSE /\ workflow' = [k \in 1..Len(steps) |-> steps[k].step]
                /\ decoded' = [k \in 1..Len(steps) |->
                                 [class |-> steps[k].class, expressions |-> <<>>]]
                /\ status' = "running"
                /\ error' = error
        /\ UNCHANGED <<wire, lazy, heap, initial, snapshot, cur, pc, sinks, disk, history>>

FromKeywords(doc) == "keywords" \in DOMAIN doc

\* the workflow document is decoded
DecodeRead ==
    /\ status = "decoding" /\ ~FromKeywords(Get(wire))
    /\ \E config \in PStepConfigs :
          Load([k \in 1..Len(Get(wire).workflow) |->
                   DecodeIOStep(Get(wire).workflow[k], config)])

\* the steps are constructed from keywords, as the tests do
ConstructRead ==
    /\ status = "decoding" /\ FromKeywords(Get(wire))
    /\ Load([k \in 1..Len(Get(wire).workflow) |-> ConstructIOStep(Get(wire).workflow[k])])

-----------------------------------------------------------------------------
(* SpecRead: a read_csv step and a write_csv step, decoded from a document *)
(* or constructed from keywords, are executed with lazy=False on an empty  *)
(* table space.  The file rows.csv has three data rows.                    *)

MaxRowLimit == 4
RowLimits == 0..MaxRowLimit

SchemaObjects ==
    {<<[column |-> "a"]>>,
     <<[column |-> "a", null_value |-> "NA"]>>,
     <<[column |-> "a", nullValue |-> "NA"]>>,
     <<[nullValue |-> "NA"]>>}
ReadObject == [type |-> "read_csv", file |-> "rows.csv", name |-> "t"]
ReadObjects ==
    {ReadObject}
    \cup {[type |-> "read_csv", file |-> "rows.csv", name |-> "t", schema |-> sch] :
            sch \in SchemaObjects}
    \cup {[type |-> "read_csv", file |-> "rows.csv", name |-> "t", n_rows |-> n] :
            n \in RowLimits}
    \cup {[type |-> "read_csv", file |-> "rows.csv", name |-> "t", nRows |-> n] :
            n \in RowLimits}
    \cup {[type |-> "read_csv", file |-> "rows.csv", name |-> "t", schema |-> sch,
           nRows |-> n] : sch \in SchemaObjects, n \in RowLimits}
ReadKeywords ==
    {ReadObject}
    \cup {[type |-> "read_csv", file |-> "rows.csv", name |-> "t", n_rows |-> n] :
            n \in RowLimits}
WriteObject == [type |-> "write_csv", table |-> "t", file |-> "o.csv"]

ReadDocuments ==
    {Document(<<r, WriteObject>>) : r \in ReadObjects}
    \cup {[workflow |-> <<r, WriteObject>>, keywords |-> TRUE] : r \in ReadKeywords}

InitRead ==
    /\ wire \in {Some(doc) : doc \in ReadDocuments}
    /\ decoded = <<>>
    /\ workflow = <<>>
    /\ lazy = FALSE
    /\ snapshot = EmptySpace
    /\ heap = <<snapshot>>
    /\ initial = 1
    /\ cur = 1
    /\ pc = 1
    /\ status = "decoding"
    /\ sinks = <<>>
    /\ disk = <<>>
    /\ error = NoError
    /\ history = <<>>

NextRead == DecodeRead \/ ConstructRead \/ ExecReadCsv \/ ExecWrite \/ CollectSinks

SpecRead == InitRead /\ [][NextRead]_vars

\* the read_csv object of the document
ReadGiven == Get(wire).workflow[1]
\* the rows of the one file written
RowsWritten == disk[Len(disk)].frame.rows

\* C21: the multi-word fields are read from camel-case keys: the null
\* sentinel of a read_csv schema entry from nullValue and not from
\* null_value, hash's algorithm from hashType, rank's keys from orderBy and
\* partitionBy
C21_FieldsAreCamelCase ==
    /\ EncodedName(StructRename("HashExpression"), <<"hash", "type">>) = "hashType"
    /\ EncodedName(StructRename("RankExpression"), <<"order", "by">>) = "orderBy"
    /\ EncodedName(StructRename("RankExpression"), <<"partition", "by">>) = "partitionBy"
    /\ status # "decoding" /\ workflow # <<>> /\ "schema" \in DOMAIN ReadGiven =>
          \A k \in 1..Len(ReadGiven.schema) :
              Get(workflow[1].schema)[k].null_value
                  = OptionalField(ReadGiven.schema[k], "nullValue")

\* C22: a read_csv step with a row limit n binds its table to the first n
\* data rows of the file: the table written out has min(n, rows of the
\* file) rows
C22_RowLimitBindsFirstRows ==
    status = "done" =>
        \A key \in {"n_rows", "nRows"} \cap DOMAIN ReadGiven :
            LET n == ReadGiven[key]
                rows == Len(FileFrame(ResolvePath(ReadGiven.file)).rows)
            IN  Len(RowsWritten) = IF n < rows THEN n ELSE rows

====
